---- MODULE Spec2Model ----
(***************************************************************************)
(* State-machine model of the observability and alerting pipeline:         *)
(*   - NotificationBus        (src/bot/notifications/bus.py)               *)
(*   - HealthChecker          (src/watchdog/health_checker.py)             *)
(*   - HostMonitor            (src/watchdog/host_monitor.py)               *)
(*   - DockerMonitor          (src/watchdog/docker_monitor.py)             *)
(*   - TelegramNotifier       (src/bot/notifications/telegram_notifier.py) *)
(*   - WebhookNotifier        (src/bot/notifications/webhook_notifier.py)  *)
(*   - LoggingBridge, hooks   (src/bot/notifications/crash_handler.py)     *)
(*   - setup_notifications    (src/bot/notifications/__init__.py)          *)
(*   - FileNotifier           (src/bot/notifications/file_notifier.py)     *)
(* Each component has its own specification (SpecBus, SpecLifecycle,       *)
(* SpecHealth, SpecHost, SpecHostNotify, SpecDocker, SpecDie, SpecWindow,  *)
(* SpecHealthStatus, SpecEventLoop, SpecMonitor, SpecSend, SpecSession,    *)
(* SpecFile, SpecBridge, SpecHooks, SpecSetup, SpecOverlap, SpecHistory);  *)
(* the variables of the other components keep their constructed values.    *)
(***************************************************************************)
EXTENDS Integers, Sequences, FiniteSets, TLC

VARIABLES
    \* ---- NotificationBus ------------------------------------------------
    notifiers,      \* self._notifiers: sequence of notifier objects
    event_log,      \* self._event_log: sequence of events
    ret,            \* what the emit call that has just returned hands to its caller
    emit_count,     \* number of emit calls made so far; numbers the events
    shutdowns,      \* history: per registered notifier, how often its close()
                    \* has been invoked
    close_calls,    \* number of close calls made so far
    close_last,     \* history: the last close call, while the list is as it left it
    \* ---- HealthChecker --------------------------------------------------
    threshold,              \* self._threshold
    consecutive_failures,   \* self._consecutive_failures
    is_healthy,             \* self._is_healthy
    alerted,                \* self._alerted
    downtime_start,         \* self._downtime_start: <<>> is None, <<t>> an instant
    total_checks,           \* self.stats["total_checks"]
    total_failures,         \* self.stats["total_failures"]
    hc_results,             \* history: the result of every check so far
    hc_notified,            \* history: what each check passed to _notify
    \* ---- HostMonitor ----------------------------------------------------
    alert_active,       \* self._alert_active: metric -> BOOLEAN
    metrics,            \* self.metrics: the last sampled value of each metric
    hm_samples,         \* number of samples taken so far
    hm_prev_active,     \* history: alert_active as it was before the last sample
    hm_notified,        \* history: what the last sample passed to _notify, per metric
    hm_events,          \* history: every alert and recovery sent, per metric
    hm_low,             \* history: a value below 0.9 x threshold was sampled
                        \* since the last alert of the metric
    hm_ever_low,        \* history: such a value was sampled at all
    hm_trace,           \* history: every cpu sample with what it sent
    \* ---- DockerMonitor --------------------------------------------------
    restart_times,      \* self._restart_times: deque(maxlen = 2 * RESTART_LOOP_COUNT)
    last_status,        \* self._last_status
    restart_count,      \* self.stats["restart_count"]
    last_event,         \* self.stats["last_event"]
    dm_clock,           \* the last reading of time.time(), in seconds
    dm_starts,          \* history: every processed start, its time and what it sent
    dm_last,            \* history: the last processed event, the status recorded
                        \* before it, what it sent and, for a die, what the
                        \* daemon reported and the reason in the metadata
    oom_count,          \* self.stats["oom_count"]
    dm_owed,            \* history: an UNHEALTHY alert was sent and no recovery
                        \* notice since
    \* ---- TelegramNotifier / WebhookNotifier: one send call ---------------
    sn_kind,            \* which sink the notifier is: "telegram" or "webhook"
    sn_max_retries,     \* self._max_retries
    sn_pc,              \* where the send call is: "idle", "attempt" or "done"
    sn_attempt,         \* the loop variable attempt
    sn_posts,           \* history: what the transport answered to each POST
    sn_sleeps,          \* history: every sleep of the retry loop, with the
                        \* attempt it followed and its duration
    sn_wait,            \* history: the rate-limit sleep before the first POST
    sn_result,          \* what the call returned: "none", "true" or "false"
    \* ---- LoggingBridge ---------------------------------------------------
    lb_tasks,           \* the _safe_emit tasks created and not yet run, each
                        \* with the event it holds
    lb_seen,            \* history: every record passed to the handler, where
                        \* it came from and whether it became an event
    lb_records,         \* number of records logged by the application so far
    \* ---- emit calls that overlap, and the TelegramNotifier they share -----
    ov_calls,           \* the emit calls suspended in gather, by event id,
                        \* each with the position of its send of the chat sink
    ov_clock,           \* time.monotonic(), in half seconds
    last_send_time,     \* self._last_send_time of the TelegramNotifier
    ov_posts,           \* history: the last two POSTs, with event, time and
                        \* number
    ov_delivered,       \* history: the events whose POST was answered 200,
                        \* each with the number of that POST
    \* ---- setup_notifications ----------------------------------------------
    su_state,           \* where the call is: "not_called", "returned" or
                        \* "raised" (an exception left it)
    su_args,            \* the arguments of the call
    bridge_installed,   \* a LoggingBridge is a handler of the root logger
    hooks_installed,    \* install_exception_hooks has run
    \* ---- DockerMonitor._event_loop --------------------------------------
    el_running,         \* self._running
    el_pc,              \* where the task of the loop is
    el_stream,          \* what the reader of the event stream is doing
    el_found,           \* the watched container exists
    el_warnings,        \* history: the 'container not found' warnings sent
                        \* since the monitor was started, in the present
                        \* absence of the container
    el_sleep,           \* the sleep the task is in, in seconds; 0 is none
    el_notified,        \* history: the severity of the last notification of
                        \* the loop itself
    \* ---- install_exception_hooks ------------------------------------------
    ch_tasks,           \* the bus.emit tasks the hooks created, not yet run
    ch_seen,            \* history: every fault passed to a hook and what the
                        \* hook did with it
    ch_emitted,         \* history: the events of the hooks that bus.emit
                        \* has taken
    \* ---- the HTTP session of a Telegram or webhook sink -------------------
    ss_kind,            \* "telegram" or "webhook": the sink the field is of
    ss_session,         \* self._session: 0 is None, else the number of the
                        \* ClientSession object the field refers to
    ss_sessions,        \* history: every ClientSession the sink constructed,
                        \* in order, each "open" or "closed"
    ss_calls,           \* history: the send and close calls made on the sink
    \* ---- the loop task of a monitor --------------------------------------
    mt_kind,            \* "health", "host" or "docker": the monitor
    mt_running,         \* self._running
    mt_task,            \* self._task: 0 is None, else the number of the task
    mt_tasks,           \* every task start created, in order: where it is
                        \* (pc), whether a cancel is pending (must_cancel)
                        \* and whether stop has cancelled it (stopped)
    mt_calls,           \* history: the start and stop calls
    mt_log,             \* history: the iterations the tasks ran
    \* ---- FileNotifier -----------------------------------------------------
    fn_file_logger,     \* whether self._file_logger is set (not None)
    fn_console_output,  \* self._console_output
    fn_sends            \* history: what each send did and returned

busVars == <<notifiers, event_log, ret, emit_count, shutdowns, close_calls,
             close_last>>

hcVars == <<threshold, consecutive_failures, is_healthy, alerted, downtime_start,
            total_checks, total_failures, hc_results, hc_notified>>

hmVars == <<alert_active, metrics, hm_samples, hm_prev_active, hm_notified,
            hm_events, hm_low, hm_ever_low, hm_trace>>

dmVars == <<restart_times, last_status, restart_count, last_event, dm_clock,
            dm_starts, dm_last, oom_count, dm_owed>>

snVars == <<sn_kind, sn_max_retries, sn_pc, sn_attempt, sn_posts, sn_sleeps,
            sn_wait, sn_result>>

lbVars == <<lb_tasks, lb_seen, lb_records>>

ovVars == <<ov_calls, ov_clock, last_send_time, ov_posts, ov_delivered>>

suVars == <<su_state, su_args, bridge_installed, hooks_installed>>

elVars == <<el_running, el_pc, el_stream, el_found, el_warnings, el_sleep,
            el_notified>>

chVars == <<ch_tasks, ch_seen, ch_emitted>>

ssVars == <<ss_kind, ss_session, ss_sessions, ss_calls>>

mtVars == <<mt_kind, mt_running, mt_task, mt_tasks, mt_calls, mt_log>>

fnVars == <<fn_file_logger, fn_console_output, fn_sends>>

tailVars == <<ssVars, mtVars, fnVars>>

procVars == <<suVars, elVars, chVars, tailVars>>

deliveryVars == <<snVars, lbVars, ovVars, procVars>>

vars == <<busVars, hcVars, hmVars, dmVars, deliveryVars>>

\* ------------------------------------------------------------------------
\* Bounds of the model
\* ------------------------------------------------------------------------
MaxNotifiers == 2       \* registrations held by the bus at one time
MaxEmits == 3           \* emit calls in one behaviour
MaxCloses == 2          \* close calls in one behaviour
MaxRetries == 3         \* largest retry budget a sink is built with
MaxRecords == 2         \* records the application logs in one behaviour
MaxClock == 6           \* last instant of the overlap clock, in half seconds
MaxChecks == 7          \* health checks in one behaviour
MaxThreshold == 3       \* largest failure threshold a HealthChecker is built with
MaxSamples == 4         \* host samples in one behaviour
MaxWarnings == 2        \* 'container not found' warnings counted in one absence
MaxFaults == 2          \* faults passed to the exception hooks in one behaviour
MaxStarts == 7          \* start events of the watched container in one behaviour
MaxOoms == 3            \* largest value of the OOM counter in one behaviour

\* self._max_log_size: 100 in bus.py:43; the ring logic does not depend on
\* the value, which is scaled down so that capacity+1 emits are reached.
max_log_size == 2

\* ------------------------------------------------------------------------
\* events.py: Severity (IntEnum mapped on the logging levels)
\* ------------------------------------------------------------------------
DEBUG == 10
INFO == 20
WARNING == 30
ERROR == 40
CRITICAL == 50

Severity == {DEBUG, INFO, WARNING, ERROR, CRITICAL}

\* Inputs: severities of emitted events, thresholds and names of notifiers.
EventSeverities == {INFO, WARNING}
MinSeverities == {INFO, WARNING}
NotifierNames == {"file", "telegram"}

\* What one notifier.send(event) coroutine ends with inside gather.
Outcomes == {"true", "false", "raise"}

EmptyMap == [x \in {} |-> FALSE]

NoReturn == [event |-> [id |-> 0, severity |-> DEBUG], tasks |-> <<>>,
             outcomes |-> <<>>, results |-> EmptyMap]

\* ------------------------------------------------------------------------
\* base.py: BaseNotifier.accepts
\* ------------------------------------------------------------------------
AcceptsIgnoringEnabled(n, e) == e.severity >= n.min_severity

Accepts(n, e) == n.enabled /\ e.severity >= n.min_severity

\* ------------------------------------------------------------------------
\* bus.py: NotificationBus
\* ------------------------------------------------------------------------

\* lst[-n:] of Python: the last n elements, the whole list when n = 0.
LastSlice(s, n) ==
    IF n = 0 \/ n >= Len(s) THEN s ELSE SubSeq(s, Len(s) - n + 1, Len(s))

\* emit, lines 82-84: append, then trim to the newest _max_log_size events.
AppendKeepOldest(log, e) ==
    LET appended == Append(log, e)
    IN  IF Len(appended) > max_log_size
        THEN SubSeq(appended, 1, max_log_size)
        ELSE appended

AppendNoTrim(log, e) == Append(log, e)

AppendToLog(log, e) ==
    LET appended == Append(log, e)
    IN  IF Len(appended) > max_log_size
        THEN LastSlice(appended, max_log_size)
        ELSE appended

\* emit with no filter: a task for every registered notifier.
SelectAll(ns, e) == [k \in 1..Len(ns) |-> [pos |-> k, name |-> ns[k].name]]

\* emit, lines 89-91: one task (name, send coroutine) per accepting notifier,
\* in registration order. pos is the place of the notifier object in the list.
SelectTasks(ns, e) ==
    LET idx == SelectSeq([i \in 1..Len(ns) |-> i], LAMBDA i: Accepts(ns[i], e))
    IN  [k \in 1..Len(idx) |-> [pos |-> idx[k], name |-> ns[idx[k]].name]]

\* emit, lines 103-109: an exception becomes False, anything else bool(outcome).
OutcomeValue(o) == IF o = "raise" THEN FALSE ELSE o = "true"

Put(f, k, v) == [x \in DOMAIN f \cup {k} |-> IF x = k THEN v ELSE f[x]]

\* emit, lines 102-109: the loop over zip(names, outcomes) filling results.
RECURSIVE CollectResults(_, _, _, _)
CollectResults(tasks, outcomes, i, results) ==
    IF i > Len(tasks)
    THEN results
    ELSE CollectResults(tasks, outcomes, i + 1,
                        Put(results, tasks[i].name, OutcomeValue(outcomes[i])))

\* What one notifier.close() coroutine ends with inside NotificationBus.close.
ShutdownOutcomes == {"ok", "raise"}

NoClose == [outcomes |-> <<>>, before |-> <<>>, after |-> <<>>,
            returned |-> FALSE]

BusInit ==
    /\ notifiers = <<>>
    /\ event_log = <<>>
    /\ ret = NoReturn
    /\ emit_count = 0
    /\ shutdowns = <<>>
    /\ close_calls = 0
    /\ close_last = NoClose

\* register, lines 54-57. Every call site registers a newly built notifier.
Register(name, min_severity, enabled) ==
    /\ Len(notifiers) < MaxNotifiers
    /\ notifiers' = Append(notifiers,
           [name |-> name, min_severity |-> min_severity, enabled |-> enabled])
    /\ shutdowns' = Append(shutdowns, 0)
    /\ ret' = NoReturn
    /\ close_last' = NoClose
    /\ UNCHANGED <<event_log, emit_count, close_calls, hcVars, hmVars, dmVars, deliveryVars>>

\* unregister, lines 59-66.
Unregister(name) ==
    LET kept == SelectSeq([i \in 1..Len(notifiers) |-> i],
                          LAMBDA i: notifiers[i].name # name)
    IN  /\ notifiers' = SelectSeq(notifiers, LAMBDA n: n.name # name)
        /\ shutdowns' = [k \in 1..Len(kept) |-> shutdowns[kept[k]]]
        /\ ret' = NoReturn
        /\ close_last' = NoClose
        /\ UNCHANGED <<event_log, emit_count, close_calls, hcVars, hmVars,
                       dmVars, deliveryVars>>

\* emit, lines 74-111. The call suspends once, in gather at line 100; what
\* follows reads and writes only locals of the call, so the two halves are one
\* step here. outcomes[k] is how the k-th selected send coroutine ended.
EmitCall(severity, outcomes) ==
    LET event == [id |-> emit_count + 1, severity |-> severity]
        tasks == SelectTasks(notifiers, event)
    IN  /\ emit_count < MaxEmits
        /\ DOMAIN outcomes = DOMAIN tasks
        /\ emit_count' = emit_count + 1
        /\ event_log' = AppendToLog(event_log, event)
        /\ ret' = IF tasks = <<>>
                  THEN [event |-> event, tasks |-> <<>>, outcomes |-> <<>>,
                        results |-> EmptyMap]
                  ELSE [event |-> event, tasks |-> tasks, outcomes |-> outcomes,
                        results |-> CollectResults(tasks, outcomes, 1, EmptyMap)]
        /\ UNCHANGED <<notifiers, shutdowns, close_calls, close_last>>

Emit(severity, outcomes) ==
    /\ EmitCall(severity, outcomes)
    /\ UNCHANGED <<hcVars, hmVars, dmVars, deliveryVars>>

\* close, line 179: `except Exception` catches what a notifier's close raises.
CaughtNothing(outcome) == FALSE

Caught(outcome) == outcome = "raise"

\* close, lines 176-180: the loop over self._notifiers. counts[i] is how often
\* close() of the i-th notifier has been invoked; an exception that is not
\* caught ends the loop and leaves the call.
RECURSIVE CloseLoop(_, _, _)
CloseLoop(outcomes, i, counts) ==
    IF i > Len(counts)
    THEN [counts |-> counts, returned |-> TRUE]
    ELSE LET invoked == [counts EXCEPT ![i] = @ + 1]
         IN  IF outcomes[i] = "ok" \/ Caught(outcomes[i])
             THEN CloseLoop(outcomes, i + 1, invoked)
             ELSE [counts |-> invoked, returned |-> FALSE]

\* close, lines 174-180. outcomes[i] is how close() of the i-th notifier ends.
\* The call suspends inside each notifier.close(); calls of register and
\* unregister that overlap a close are not modelled, sequences of whole
\* calls are.
Close(outcomes) ==
    LET done == CloseLoop(outcomes, 1, shutdowns)
    IN  /\ close_calls < MaxCloses
        /\ DOMAIN outcomes = DOMAIN notifiers
        /\ close_calls' = close_calls + 1
        /\ shutdowns' = done.counts
        /\ close_last' = [outcomes |-> outcomes, before |-> shutdowns,
                          after |-> done.counts, returned |-> done.returned]
        /\ UNCHANGED <<notifiers, event_log, ret, emit_count, hcVars, hmVars,
                       dmVars, deliveryVars>>

NextBus ==
    \/ \E name \in NotifierNames, m \in MinSeverities, en \in BOOLEAN:
           Register(name, m, en)
    \/ \E name \in NotifierNames: Unregister(name)
    \/ \E s \in EventSeverities, k \in 0..MaxNotifiers:
           \E outcomes \in [1..k -> Outcomes]: Emit(s, outcomes)

\* ------------------------------------------------------------------------
\* health_checker.py: HealthChecker
\* ------------------------------------------------------------------------
DefaultThreshold == 3

\* __init__, lines 28-59.
HealthConstructed(t) ==
    /\ threshold = t
    /\ consecutive_failures = 0
    /\ is_healthy = TRUE
    /\ alerted = FALSE
    /\ downtime_start = <<>>
    /\ total_checks = 0
    /\ total_failures = 0
    /\ hc_results = <<>>
    /\ hc_notified = <<>>

\* _loop, line 109: a success ends a downtime for which an alert was sent.
RecoveryAfterAnyFailure == consecutive_failures > 0

RecoveryDue == ~is_healthy /\ alerted

\* _loop, lines 139-142: the failure count has reached the threshold and no
\* alert was sent for this downtime yet.
AlertOnEveryFailure(failures) == failures >= threshold

AlertDue(failures) == failures >= threshold /\ ~alerted

\* _loop, line 128: what a successful check leaves in _alerted.
AlertedKept(was) == was

AlertedAfterSuccess(was) == FALSE

\* _loop, lines 99-169: one iteration. is_ok is what _check_once returned;
\* the monotonic clock is read in units of the polling interval.
HealthLoop(is_ok) ==
    /\ total_checks < MaxChecks
    /\ total_checks' = total_checks + 1
    /\ hc_results' = Append(hc_results, is_ok)
    /\ UNCHANGED <<threshold, busVars, hmVars, dmVars, deliveryVars>>
    /\ IF is_ok
       THEN /\ hc_notified' = Append(hc_notified,
                                     IF RecoveryDue THEN "info" ELSE "none")
            /\ consecutive_failures' = 0
            /\ is_healthy' = TRUE
            /\ alerted' = AlertedAfterSuccess(alerted)
            /\ downtime_start' = <<>>
            /\ UNCHANGED total_failures
       ELSE LET failures == consecutive_failures + 1
            IN  /\ consecutive_failures' = failures
                /\ total_failures' = total_failures + 1
                /\ downtime_start' = IF failures = 1
                                     THEN <<total_checks + 1>>
                                     ELSE downtime_start
                /\ IF AlertDue(failures)
                   THEN /\ is_healthy' = FALSE
                        /\ alerted' = TRUE
                        /\ hc_notified' = Append(hc_notified, "error")
                   ELSE /\ UNCHANGED <<is_healthy, alerted>>
                        /\ hc_notified' = Append(hc_notified, "none")

NextHealth == \E is_ok \in BOOLEAN: HealthLoop(is_ok)

\* ------------------------------------------------------------------------
\* host_monitor.py: HostMonitor
\* ------------------------------------------------------------------------
Metrics == {"cpu", "ram", "disk"}

\* __init__, lines 32-34 and 38-42: the default thresholds, in percent.
Thresholds == [cpu |-> 90, ram |-> 85, disk |-> 90]

\* Inputs: the percentages _collect_metrics may return for each metric.
SampleValues ==
    [cpu |-> {79, 82, 85, 89, 91}, ram |-> {70, 97}, disk |-> {85, 96}]

\* _check_thresholds, line 115: "error" at 95 percent and above.
ERROR_PERCENT == 95

AlwaysWarning(value) == "warning"

AlertSeverity(value) == IF value >= ERROR_PERCENT THEN "error" ELSE "warning"

\* _check_thresholds, line 125: value < threshold * 0.9, in exact arithmetic.
BelowThreshold(value, t) == value < t

BelowHysteresis(value, t) == 10 * value < 9 * t

\* _check_thresholds, line 109: value >= threshold.
AtOrAbove(value, t) == value >= t

\* _check_thresholds, lines 105-133: the body of the loop for one metric.
\* Gives the new flag of the metric and what is passed to _notify.
CheckMetric(key, value, was_active) ==
    LET t == Thresholds[key]
    IN  IF AtOrAbove(value, t) /\ ~was_active
        THEN [active |-> TRUE, notified |-> AlertSeverity(value)]
        ELSE IF BelowHysteresis(value, t) /\ was_active
        THEN [active |-> FALSE, notified |-> "info"]
        ELSE [active |-> was_active, notified |-> "none"]

\* __init__, lines 47-64.
HostConstructed ==
    /\ alert_active = [m \in Metrics |-> FALSE]
    /\ metrics = [m \in Metrics |-> 0]
    /\ hm_samples = 0
    /\ hm_prev_active = [m \in Metrics |-> FALSE]
    /\ hm_notified = [m \in Metrics |-> "none"]
    /\ hm_events = [m \in Metrics |-> <<>>]
    /\ hm_low = [m \in Metrics |-> FALSE]
    /\ hm_ever_low = [m \in Metrics |-> FALSE]
    /\ hm_trace = <<>>

IsAlert(n) == n \in {"warning", "error"}

\* _loop, lines 160-171: one iteration. current is what _collect_metrics
\* returned; _check_thresholds then handles cpu, ram and disk in turn.
HostLoop(current) ==
    LET step == [m \in Metrics |-> CheckMetric(m, current[m], alert_active[m])]
        low == [m \in Metrics |->
                   hm_low[m] \/ 10 * current[m] < 9 * Thresholds[m]]
    IN  /\ hm_samples < MaxSamples
        /\ hm_samples' = hm_samples + 1
        /\ metrics' = current
        /\ alert_active' = [m \in Metrics |-> step[m].active]
        /\ hm_prev_active' = alert_active
        /\ hm_notified' = [m \in Metrics |-> step[m].notified]
        /\ hm_events' = [m \in Metrics |->
               IF IsAlert(step[m].notified)
               THEN Append(hm_events[m], [kind |-> "alert", low_before |-> low[m]])
               ELSE IF step[m].notified = "info"
               THEN Append(hm_events[m], [kind |-> "recovery", low_before |-> low[m]])
               ELSE hm_events[m]]
        /\ hm_low' = [m \in Metrics |->
               IF IsAlert(step[m].notified) THEN FALSE ELSE low[m]]
        /\ hm_ever_low' = [m \in Metrics |->
               hm_ever_low[m] \/ 10 * current[m] < 9 * Thresholds[m]]
        /\ hm_trace' = Append(hm_trace,
               [value |-> current["cpu"], notified |-> step["cpu"].notified])
        /\ UNCHANGED <<busVars, hcVars, dmVars, deliveryVars>>

NextHost ==
    \E c \in SampleValues["cpu"], r \in SampleValues["ram"],
       d \in SampleValues["disk"]:
        HostLoop([cpu |-> c, ram |-> r, disk |-> d])

\* ------------------------------------------------------------------------
\* host_monitor.py: HostMonitor with a callback that may raise
\* ------------------------------------------------------------------------
\* _check_thresholds, lines 99-103: the order in which the metrics are
\* handled.
MetricOrder == <<"cpu", "ram", "disk">>

\* Inputs: the metric whose notification makes the callback raise.
Failing == {"none", "cpu", "ram"}

\* Inputs: the percentages sampled when the callback may raise.
NotifySampleValues == [cpu |-> {79, 91}, ram |-> {70, 97}, disk |-> {85, 96}]

\* _check_thresholds, lines 105-133: the loop over the metrics from the i-th
\* on. The flag of a metric is written before _notify is awaited (lines 111
\* and 127); an exception out of _notify leaves the loop and the method.
RECURSIVE CheckThresholds(_, _, _, _, _)
CheckThresholds(current, failing, i, active, notified) ==
    IF i > Len(MetricOrder)
    THEN [active |-> active, notified |-> notified, raised |-> FALSE]
    ELSE LET m == MetricOrder[i]
             step == CheckMetric(m, current[m], active[m])
             written == [active EXCEPT ![m] = step.active]
             passed == [notified EXCEPT ![m] = step.notified]
         IN  IF step.notified # "none" /\ failing = m
             THEN [active |-> written, notified |-> passed, raised |-> TRUE]
             ELSE CheckThresholds(current, failing, i + 1, written, passed)

\* _loop, lines 160-171: one iteration with a callback that raises when it
\* is called for the metric failing. The exception is caught at line 167.
HostLoopNotify(current, failing) ==
    LET done == CheckThresholds(current, failing, 1, alert_active,
                                [m \in Metrics |-> "none"])
        low == [m \in Metrics |->
                   hm_low[m] \/ 10 * current[m] < 9 * Thresholds[m]]
    IN  /\ hm_samples < MaxSamples
        /\ hm_samples' = hm_samples + 1
        /\ metrics' = current
        /\ alert_active' = done.active
        /\ hm_prev_active' = alert_active
        /\ hm_notified' = done.notified
        /\ hm_events' = [m \in Metrics |->
               IF IsAlert(done.notified[m])
               THEN Append(hm_events[m], [kind |-> "alert", low_before |-> low[m]])
               ELSE IF done.notified[m] = "info"
               THEN Append(hm_events[m], [kind |-> "recovery", low_before |-> low[m]])
               ELSE hm_events[m]]
        /\ hm_low' = [m \in Metrics |->
               IF IsAlert(done.notified[m]) THEN FALSE ELSE low[m]]
        /\ hm_ever_low' = [m \in Metrics |->
               hm_ever_low[m] \/ 10 * current[m] < 9 * Thresholds[m]]
        /\ hm_trace' = Append(hm_trace,
               [value |-> current["cpu"], notified |-> done.notified["cpu"]])
        /\ UNCHANGED <<busVars, hcVars, dmVars, deliveryVars>>

NextHostNotify ==
    \E c \in NotifySampleValues["cpu"], r \in NotifySampleValues["ram"],
       d \in NotifySampleValues["disk"], failing \in Failing:
        HostLoopNotify([cpu |-> c, ram |-> r, disk |-> d], failing)

\* ------------------------------------------------------------------------
\* docker_monitor.py: DockerMonitor
\* ------------------------------------------------------------------------
RESTART_LOOP_COUNT == 3
RESTART_LOOP_WINDOW == 300

\* config.py, line 20: the watched container; "other" is any other one.
WATCHED_CONTAINER == "tempmail-bot"

\* _iter_events_blocking, lines 220-223: the event kinds subscribed to, with
\* the two health states Docker reports.
DockerActions == {"die", "start", "stop", "kill", "oom",
                  "health_status: healthy", "health_status: unhealthy"}

\* Inputs: seconds between two processed start events.
StartGaps == {50, 250, 400}

\* What dm_last holds of an event that is not a die.
NoDie == [oom_killed |-> FALSE, exit_code |-> "", reason |-> ""]

NoEvent == [action |-> "", prev |-> "unknown", notified |-> "none",
            die |-> NoDie, owed |-> FALSE]

\* __init__, lines 48-60.
DockerConstructed ==
    /\ restart_times = <<>>
    /\ last_status = "unknown"
    /\ restart_count = 0
    /\ last_event = ""
    /\ dm_clock = 0
    /\ dm_starts = <<>>
    /\ dm_last = NoEvent
    /\ oom_count = 0
    /\ dm_owed = FALSE

\* __init__, line 49: the maxlen of self._restart_times.
WindowBelowCount == RESTART_LOOP_COUNT - 1

WindowCapacity == RESTART_LOOP_COUNT * 2

\* deque.append with maxlen: the oldest element is dropped when full.
DequeAppend(d, x, maxlen) ==
    IF Len(d) >= maxlen THEN Append(Tail(d), x) ELSE Append(d, x)

\* _check_restart_loop, line 98: the restart at time t is in the window.
InWindow(now, t) == now - t < RESTART_LOOP_WINDOW

\* _check_restart_loop, line 99.
LoopAboveCount(recent) == recent > RESTART_LOOP_COUNT

LoopDetected(recent) == recent >= RESTART_LOOP_COUNT

\* _check_restart_loop, lines 94-99, on the deque as it is after the append.
RecentRestarts(times, now) ==
    Cardinality({i \in 1..Len(times): InWindow(now, times[i])})

\* _process_event, line 156: not the first observed start.
NotFirstStart(count) == count > 1

\* _process_event, line 190: the health state named by the action.
HealthOf(action) ==
    IF action = "health_status: healthy" THEN "healthy"
    ELSE IF action = "health_status: unhealthy" THEN "unhealthy"
    ELSE IF action = "health_status: starting" THEN "starting"
    ELSE action

\* _process_event, line 189: action.startswith("health_status"), whatever
\* state the action names.
HealthActions == {"health_status: healthy", "health_status: unhealthy",
                  "health_status: starting"}

IsHealthStatus(action) == action \in HealthActions

\* _process_event, line 193.
UnhealthyAlways(health, prev) == health = "unhealthy"

BecameUnhealthy(health, prev) == health = "unhealthy" /\ prev # "unhealthy"

\* _process_event, line 199.
BecameHealthy(health, prev) == health = "healthy" /\ prev = "unhealthy"

\* _process_event, lines 128-137: the severity of the alert of a die.
DieAlwaysCritical(oom_killed, exit_code) == "critical"

DieSeverity(oom_killed, exit_code) ==
    IF oom_killed THEN "critical"
    ELSE IF exit_code # "0" THEN "critical" ELSE "warning"

\* _process_event, line 134: the reason in the metadata of the alert.
DieReason(oom_killed) == IF oom_killed THEN "OOM Killed" ELSE ""

\* _process_event, lines 129 and 166: the events that count as an OOM.
CountsAsOom(action, oom_killed) ==
    (action = "die" /\ oom_killed) \/ action = "oom"

\* _process_event, lines 101-211, for one event of the stream. gap is how far
\* time.time() has advanced when a start reads it; oom_killed and exit_code
\* are what the daemon reports for a die: oom_killed is the OOMKilled flag
\* that _get_container_status reads after the event, FALSE also when the
\* state cannot be read (status is None); exit_code is the exitCode
\* attribute, "?" when the event has none. Of self.stats, the counter
\* events_received and the fields last_event_time and current_status are
\* written only, and are left out.
ProcessEvent(name, action, gap, oom_killed, exit_code) ==
    IF name # WATCHED_CONTAINER
    THEN UNCHANGED vars
    ELSE
        /\ UNCHANGED <<busVars, hcVars, hmVars, deliveryVars>>
        /\ last_event' = action
        /\ IF action = "start"
           THEN LET now == dm_clock + gap
                    times == DequeAppend(restart_times, now, WindowCapacity)
                    count == restart_count + 1
                    sent == IF LoopDetected(RecentRestarts(times, now))
                            THEN "critical"
                            ELSE IF NotFirstStart(count) THEN "warning"
                            ELSE "none"
                IN  /\ restart_count < MaxStarts
                    /\ restart_count' = count
                    /\ dm_clock' = now
                    /\ restart_times' = times
                    /\ dm_starts' = Append(dm_starts, [time |-> now, notified |-> sent])
                    /\ dm_last' = [action |-> action, prev |-> last_status,
                                   notified |-> sent, die |-> NoDie,
                                   owed |-> dm_owed]
                    /\ UNCHANGED <<last_status, oom_count, dm_owed>>
           ELSE IF IsHealthStatus(action)
           THEN LET health == HealthOf(action)
                    prev == last_status
                    sent == IF BecameUnhealthy(health, prev) THEN "error"
                            ELSE IF BecameHealthy(health, prev) THEN "info"
                            ELSE "none"
                IN  /\ last_status' = health
                    /\ dm_last' = [action |-> action, prev |-> prev,
                                   notified |-> sent, die |-> NoDie,
                                   owed |-> dm_owed]
                    /\ dm_owed' = (IF sent = "error" THEN TRUE
                                   ELSE IF sent = "info" THEN FALSE
                                   ELSE dm_owed)
                    /\ UNCHANGED <<restart_times, restart_count, dm_clock,
                                   dm_starts, oom_count>>
           ELSE LET sent == IF action = "die"
                            THEN DieSeverity(oom_killed, exit_code)
                            ELSE IF action = "oom" THEN "critical"
                            ELSE IF action = "stop" THEN "info"
                            ELSE "warning"
                    die == IF action = "die"
                           THEN [oom_killed |-> oom_killed,
                                 exit_code |-> exit_code,
                                 reason |-> DieReason(oom_killed)]
                           ELSE NoDie
                IN  /\ dm_last' = [action |-> action, prev |-> last_status,
                                   notified |-> sent, die |-> die,
                                   owed |-> dm_owed]
                    /\ IF CountsAsOom(action, oom_killed)
                       THEN /\ oom_count < MaxOoms
                            /\ oom_count' = oom_count + 1
                       ELSE UNCHANGED oom_count
                    /\ UNCHANGED <<restart_times, last_status, restart_count,
                                   dm_clock, dm_starts, dm_owed>>

\* Inputs: the exitCode attribute of a die; "?" stands for an event
\* without the attribute (line 123).
ExitCodes == {"0", "1", "137", "?"}

\* The events of the stream: a start, a die, any other event of the watched
\* container, and an event of another container. Inputs an event does not
\* read are held fixed. The events that count an OOM (an oom, and a die
\* with the OOMKilled flag) are those of NextDie.
NextDocker ==
    \/ \E gap \in StartGaps:
           ProcessEvent(WATCHED_CONTAINER, "start", gap, FALSE, "0")
    \/ \E exit_code \in {"0", "137"}:
           ProcessEvent(WATCHED_CONTAINER, "die", 0, FALSE, exit_code)
    \/ \E action \in DockerActions \ {"start", "die", "oom"}:
           ProcessEvent(WATCHED_CONTAINER, action, 0, FALSE, "0")
    \/ \E action \in DockerActions:
           ProcessEvent("other", action, 0, FALSE, "0")

\* Inputs: start events that come close together, so that a start the
\* deque has dropped is still inside the 300 s window; 0 is two starts that
\* read the same time.time().
CloseGaps == {0, 40, 300}

NextWindow ==
    \E gap \in CloseGaps:
        ProcessEvent(WATCHED_CONTAINER, "start", gap, FALSE, "0")

\* The events of the stream with the health states a container reports,
\* "starting" among them, and no start.
NextHealthStatus ==
    \/ \E action \in HealthActions:
           ProcessEvent(WATCHED_CONTAINER, action, 0, FALSE, "0")
    \/ \E action \in DockerActions \ {"start"}:
           ProcessEvent(WATCHED_CONTAINER, action, 0, FALSE, "0")
    \/ \E action \in DockerActions:
           ProcessEvent("other", action, 0, FALSE, "0")

\* The events of the stream with every input of a die and the events that
\* count an OOM, and no start.
NextDie ==
    \/ \E oom_killed \in BOOLEAN, exit_code \in ExitCodes:
           ProcessEvent(WATCHED_CONTAINER, "die", 0, oom_killed, exit_code)
    \/ \E action \in DockerActions \ {"start", "die"}:
           ProcessEvent(WATCHED_CONTAINER, action, 0, FALSE, "0")
    \/ \E action \in DockerActions:
           ProcessEvent("other", action, 0, FALSE, "0")

\* ------------------------------------------------------------------------
\* telegram_notifier.py, webhook_notifier.py: the retry loop of send
\* ------------------------------------------------------------------------
\* Durations are in half seconds, the unit in which 1.5 s is a whole number.
Seconds(n) == n + n

\* MIN_INTERVAL_SECONDS = 1.5, telegram_notifier.py:22, in half seconds.
MIN_INTERVAL == 3

\* The fallback of data.get(...).get("retry_after", 5), in seconds.
DEFAULT_RETRY_AFTER == 5

\* max_retries of the constructors: 3 for telegram, 2 for webhook.
TELEGRAM_RETRIES == 3
WEBHOOK_RETRIES == 2

SinkKinds == {"telegram", "webhook"}

\* What the transport does with one POST: a complete response with its status
\* and, for a 429 of Telegram, the retry_after of its body (<<>> when the body
\* has none or is not JSON), or aiohttp.ClientError / asyncio.TimeoutError
\* raised anywhere inside the `async with`.
NetworkError == [kind |-> "neterr", status |-> 0, retry_after |-> <<>>]

Response(status, retry_after) ==
    [kind |-> "response", status |-> status, retry_after |-> retry_after]

Statuses == {200, 204, 302, 400, 429, 500}

TransportOutcomes ==
    {Response(st, <<>>): st \in Statuses}
        \cup {Response(429, <<ra>>): ra \in {1, 30}}
        \cup {NetworkError}

\* telegram_notifier.py lines 63-66: the sleep of the rate limiter.
RateLimitWait(elapsed) ==
    IF elapsed < MIN_INTERVAL THEN MIN_INTERVAL - elapsed ELSE 0

\* telegram_notifier.py line 88, webhook_notifier.py line 157.
Success(kind, status) ==
    IF kind = "telegram" THEN status = 200 ELSE status < 300

\* telegram_notifier.py lines 94 and 110, webhook_notifier.py line 162.
RetryableAnyFailure(status) == TRUE

Retryable(status) == status = 429 \/ status >= 500

\* telegram_notifier.py lines 95-101.
RetryAfterIgnored(given) == DEFAULT_RETRY_AFTER

RetryAfter(given) == IF given = <<>> THEN DEFAULT_RETRY_AFTER ELSE given[1]

\* The sleep after a retryable response: telegram_notifier.py lines 106 and
\* 115, webhook_notifier.py line 167.
BackoffSleep(kind, attempt, outcome) ==
    IF kind = "telegram" /\ outcome.status = 429
    THEN Seconds(RetryAfter(outcome.retry_after))
    ELSE Seconds(2 ^ attempt)

\* `for attempt in range(1, self._max_retries + 1)`: whether `continue` after
\* this attempt starts another one.
BudgetLeftOffByOne(attempt, max_retries) == attempt <= max_retries

BudgetLeft(attempt, max_retries) == attempt < max_retries

\* One pass of the loop body, telegram_notifier.py lines 83-131 and
\* webhook_notifier.py lines 152-181: sleep is <<>> or the one sleep of the
\* pass; returned is "none" when the pass ends in `continue`.
LoopBody(kind, attempt, max_retries, outcome) ==
    IF outcome.kind = "neterr"
    THEN [sleep |-> IF attempt < max_retries
                    THEN <<Seconds(2 ^ attempt)>> ELSE <<>>,
          returned |-> "none"]
    ELSE IF Success(kind, outcome.status)
    THEN [sleep |-> <<>>, returned |-> "true"]
    ELSE IF Retryable(outcome.status)
    THEN [sleep |-> <<BackoffSleep(kind, attempt, outcome)>>,
          returned |-> "none"]
    ELSE [sleep |-> <<>>, returned |-> "false"]

\* __init__ of either sink.
SinkConstructed(kind, max_retries) ==
    /\ sn_kind = kind
    /\ sn_max_retries = max_retries
    /\ sn_pc = "idle"
    /\ sn_attempt = 0
    /\ sn_posts = <<>>
    /\ sn_sleeps = <<>>
    /\ sn_wait = 0
    /\ sn_result = "none"

\* send up to the loop: telegram_notifier.py lines 57-81 (chat_id guard, rate
\* limiter), webhook_notifier.py lines 146-150. elapsed is the time since
\* self._last_send_time.
SendCall(has_chat_id, elapsed) ==
    /\ sn_pc \in {"idle", "done"}
    /\ sn_posts' = <<>>
    /\ sn_sleeps' = <<>>
    /\ IF sn_kind = "telegram" /\ ~has_chat_id
       THEN /\ sn_pc' = "done"
            /\ sn_result' = "false"
            /\ sn_attempt' = 0
            /\ sn_wait' = 0
       ELSE /\ sn_wait' = IF sn_kind = "telegram"
                          THEN RateLimitWait(elapsed) ELSE 0
            /\ sn_attempt' = 1
            /\ IF 1 <= sn_max_retries
               THEN sn_pc' = "attempt" /\ sn_result' = "none"
               ELSE sn_pc' = "done" /\ sn_result' = "false"
    /\ UNCHANGED <<sn_kind, sn_max_retries, busVars, hcVars, hmVars, dmVars,
                   lbVars, ovVars, procVars>>

\* One pass of the retry loop: the POST, what the transport does with it, the
\* sleep that follows, and the return after the loop when it was the last.
SendAttempt(outcome) ==
    LET pass == LoopBody(sn_kind, sn_attempt, sn_max_retries, outcome)
        more == BudgetLeft(sn_attempt, sn_max_retries)
    IN  /\ sn_pc = "attempt"
        /\ sn_posts' = Append(sn_posts, outcome)
        /\ sn_sleeps' = IF pass.sleep = <<>>
                        THEN sn_sleeps
                        ELSE Append(sn_sleeps, [after |-> sn_attempt,
                                                duration |-> pass.sleep[1]])
        /\ IF pass.returned # "none"
           THEN /\ sn_pc' = "done"
                /\ sn_result' = pass.returned
                /\ UNCHANGED sn_attempt
           ELSE IF more
           THEN /\ sn_attempt' = sn_attempt + 1
                /\ UNCHANGED <<sn_pc, sn_result>>
           ELSE /\ sn_pc' = "done"
                /\ sn_result' = "false"
                /\ UNCHANGED sn_attempt
        /\ UNCHANGED <<sn_kind, sn_max_retries, sn_wait, busVars, hcVars,
                       hmVars, dmVars, lbVars, ovVars, procVars>>

ElapsedValues == {0, 1, MIN_INTERVAL}

NextSend ==
    \/ \E has_chat_id \in BOOLEAN, elapsed \in ElapsedValues:
           SendCall(has_chat_id, elapsed)
    \/ \E outcome \in TransportOutcomes: SendAttempt(outcome)

\* ------------------------------------------------------------------------
\* crash_handler.py: LoggingBridge
\* ------------------------------------------------------------------------
\* A logger name is the sequence of the pieces it is written with, so that
\* str.startswith is the prefix order of sequences.
StartsWith(name, prefix) ==
    /\ Len(prefix) <= Len(name)
    /\ SubSeq(name, 1, Len(prefix)) = prefix

Package == "notifications"

BusLogger == <<Package, ".", "bus">>
TelegramLogger == <<Package, ".", "telegram_notifier">>

\* self._ignored_loggers, lines 46-53.
IgnoredLoggers ==
    {<<Package>>, BusLogger, TelegramLogger,
     <<Package, ".", "webhook_notifier">>, <<Package, ".", "file_notifier">>,
     <<Package, ".", "file">>}

\* The loggers of the program that log at WARNING or above: of the
\* application, of libraries, and of the modules of the package (each module
\* has logging.getLogger(__name__); FileNotifier has notifications.file.<name>).
LoggerNames ==
    {<<"__main__">>, <<Package>>, BusLogger, <<Package, ".", "base">>,
     <<Package, ".", "file", ".", "file">>}

LogLevels == {WARNING, ERROR, CRITICAL}

\* min_level of the bridge that setup_notifications installs, __init__.py:105.
BridgeLevel == ERROR

\* emit, line 57: the anti-loop guard.
IgnoredExactly(name) == name \in IgnoredLoggers

Ignored(name) == \E prefix \in IgnoredLoggers: StartsWith(name, prefix)

\* emit, lines 61-66: severity_map.get(record.levelno, Severity.ERROR).
BridgeSeverity(levelno) ==
    IF levelno \in {WARNING, ERROR, CRITICAL} THEN levelno ELSE ERROR

\* Whether logging passes a record to the handler (Logger.callHandlers
\* compares record.levelno with the level given to Handler.__init__, line 43)
\* and emit, lines 55-79, then creates a task for it.
Forwarded(name, levelno, has_loop) ==
    levelno >= BridgeLevel /\ ~Ignored(name) /\ has_loop

\* lines 55-82 for a sequence of records logged one after another.
RECURSIVE HandleRecords(_, _, _, _)
HandleRecords(records, i, tasks, seen) ==
    IF i > Len(records)
    THEN [tasks |-> tasks, seen |-> seen]
    ELSE LET r == records[i]
             fwd == Forwarded(r.name, r.levelno, r.has_loop)
         IN  HandleRecords(records, i + 1,
                 IF fwd
                 THEN Append(tasks, [source |-> r.name,
                                     severity |-> BridgeSeverity(r.levelno)])
                 ELSE tasks,
                 IF r.levelno >= BridgeLevel
                 THEN Append(seen, [name |-> r.name, levelno |-> r.levelno,
                                    origin |-> r.origin, forwarded |-> fwd])
                 ELSE seen)

\* __init__.py lines 76-107: the process after setup_notifications with
\* Telegram configured and install_hooks: file and telegram are registered
\* and the bridge is a handler of the root logger.
BridgeInstalled ==
    /\ notifiers = <<[name |-> "file", min_severity |-> DEBUG, enabled |-> TRUE],
                     [name |-> "telegram", min_severity |-> INFO,
                      enabled |-> TRUE]>>
    /\ event_log = <<>>
    /\ ret = NoReturn
    /\ emit_count = 0
    /\ shutdowns = <<0, 0>>
    /\ close_calls = 0
    /\ close_last = NoClose
    /\ lb_tasks = <<>>
    /\ lb_seen = <<>>
    /\ lb_records = 0

BridgeConstructed ==
    /\ lb_tasks = <<>>
    /\ lb_seen = <<>>
    /\ lb_records = 0

\* Some code of the program logs one record.
LogRecord(name, levelno, has_loop) ==
    LET done == HandleRecords(<<[name |-> name, levelno |-> levelno,
                                 has_loop |-> has_loop, origin |-> "program"]>>,
                              1, lb_tasks, lb_seen)
    IN  /\ lb_records < MaxRecords
        /\ lb_records' = lb_records + 1
        /\ lb_tasks' = done.tasks
        /\ lb_seen' = done.seen
        /\ UNCHANGED <<busVars, hcVars, hmVars, dmVars, snVars, ovVars, procVars>>

\* What the package logs at ERROR while emit delivers: bus.py lines 103-106
\* for a send that raised, telegram_notifier.py lines 119 and 133 for a send
\* of the chat sink that returned False.
LoggedByEmit(tasks, outcomes) ==
    LET sinks == SelectSeq([k \in 1..Len(tasks) |-> k],
                     LAMBDA k: tasks[k].name = "telegram" /\ outcomes[k] = "false")
        raised == SelectSeq([k \in 1..Len(tasks) |-> k],
                      LAMBDA k: outcomes[k] = "raise")
    IN  [k \in 1..Len(sinks) |->
            [name |-> TelegramLogger, levelno |-> ERROR, has_loop |-> TRUE,
             origin |-> "emit"]]
        \o [k \in 1..Len(raised) |->
            [name |-> BusLogger, levelno |-> ERROR, has_loop |-> TRUE,
             origin |-> "emit"]]

\* _safe_emit, lines 84-88: the task runs bus.emit(event); every record the
\* package logs on the way passes through the handler again.
SafeEmit(outcomes) ==
    LET event == [id |-> emit_count + 1, severity |-> Head(lb_tasks).severity]
        tasks == SelectTasks(notifiers, event)
        done == HandleRecords(LoggedByEmit(tasks, outcomes), 1, Tail(lb_tasks),
                              lb_seen)
    IN  /\ lb_tasks # <<>>
        /\ EmitCall(Head(lb_tasks).severity, outcomes)
        /\ lb_tasks' = done.tasks
        /\ lb_seen' = done.seen
        /\ UNCHANGED <<lb_records, hcVars, hmVars, dmVars, snVars, ovVars, procVars>>

NextBridge ==
    \/ \E name \in LoggerNames, levelno \in LogLevels, has_loop \in BOOLEAN:
           LogRecord(name, levelno, has_loop)
    \/ \E k \in 0..MaxNotifiers:
           \E outcomes \in [1..k -> Outcomes]: SafeEmit(outcomes)

\* ------------------------------------------------------------------------
\* bus.py and telegram_notifier.py: emit calls that overlap
\* ------------------------------------------------------------------------
\* The bus runs on one event loop: a call runs alone from one await to the
\* next. emit suspends in gather (bus.py:100); the send of the chat sink
\* suspends in the sleep of the rate limiter (telegram_notifier.py:66), in
\* session.post (line 85) and in the sleeps of the retry loop (lines 106,
\* 115, 130). FileNotifier.send has no await that suspends.

\* What the transport does with a POST of an overlapped emit: it delivers,
\* asks to retry after one second, or refuses.
OverlapOutcomes ==
    {Response(200, <<>>), Response(429, <<1>>), Response(400, <<>>)}

NoCalls == [x \in {} |-> 0]

Without(f, k) == [x \in DOMAIN f \ {k} |-> f[x]]

\* __init__ of TelegramNotifier, line 49: self._last_send_time = 0. The clock
\* is time.monotonic() of a host that has been up for MIN_INTERVAL or more.
OverlapConstructed ==
    /\ ov_calls = NoCalls
    /\ ov_clock = MIN_INTERVAL
    /\ last_send_time = 0
    /\ ov_posts = <<>>
    /\ ov_delivered = <<>>

\* The number of the next POST of the notifier, counting from its first.
NextPostNo == IF ov_posts = <<>> THEN 1 ELSE ov_posts[Len(ov_posts)].no + 1

\* session.post, line 85: the POST of event id leaves at the present time.
Posted(id) ==
    DequeAppend(ov_posts, [id |-> id, time |-> ov_clock, no |-> NextPostNo], 2)

\* emit, bus.py lines 74-100, and every selected send up to its first
\* suspension: the history is appended, the tasks are built, the file sink
\* delivers, and the chat sink passes its rate limiter (telegram_notifier.py
\* lines 57-85) to sleep or to POST.
EmitStart(severity) ==
    LET id == emit_count + 1
        event == [id |-> id, severity |-> severity]
        tasks == SelectTasks(notifiers, event)
        chat == \E k \in DOMAIN tasks: tasks[k].name = "telegram"
        wait == RateLimitWait(ov_clock - last_send_time)
    IN  /\ emit_count < MaxEmits
        /\ emit_count' = id
        /\ event_log' = AppendToLog(event_log, event)
        /\ IF tasks = <<>>
           THEN /\ ret' = [event |-> event, tasks |-> <<>>, outcomes |-> <<>>,
                           results |-> EmptyMap]
                /\ UNCHANGED <<ov_calls, ov_posts>>
           ELSE /\ UNCHANGED ret
                /\ ov_calls' = Put(ov_calls, id,
                       [event |-> event, tasks |-> tasks,
                        pc |-> IF ~chat THEN "none"
                               ELSE IF wait > 0 THEN "limit" ELSE "posted",
                        attempt |-> 1,
                        post_no |-> IF chat /\ wait = 0 THEN NextPostNo ELSE 0,
                        wake |-> IF chat /\ wait > 0 THEN ov_clock + wait ELSE 0])
                /\ ov_posts' = IF chat /\ wait = 0 THEN Posted(id) ELSE ov_posts
        /\ UNCHANGED <<notifiers, shutdowns, close_calls, close_last, ov_clock,
                       last_send_time, ov_delivered, hcVars, hmVars, dmVars,
                       snVars, lbVars, procVars>>

\* telegram_notifier.py lines 85-131: the transport answers the POST of the
\* call for event id. after_headers says whether a network error came after
\* session.post had returned, that is after line 86.
Respond(id, outcome, after_headers) ==
    LET call == ov_calls[id]
        pass == LoopBody("telegram", call.attempt, TELEGRAM_RETRIES, outcome)
        more == BudgetLeft(call.attempt, TELEGRAM_RETRIES)
    IN  /\ id \in DOMAIN ov_calls
        /\ call.pc = "posted"
        /\ last_send_time' = IF outcome.kind = "response" \/ after_headers
                             THEN ov_clock ELSE last_send_time
        /\ ov_delivered' = IF pass.returned = "true"
                           THEN Append(ov_delivered,
                                       [id |-> id, post_no |-> call.post_no])
                           ELSE ov_delivered
        /\ ov_calls' = [ov_calls EXCEPT ![id] =
               IF pass.returned # "none"
               THEN [@ EXCEPT !.pc = pass.returned]
               ELSE IF pass.sleep # <<>>
               THEN [@ EXCEPT !.pc = IF more THEN "backoff" ELSE "giveup",
                              !.wake = ov_clock + pass.sleep[1]]
               ELSE [@ EXCEPT !.pc = IF more THEN "backoff" ELSE "false",
                              !.wake = ov_clock]]
        /\ UNCHANGED <<busVars, ov_clock, ov_posts, hcVars, hmVars, dmVars,
                       snVars, lbVars, procVars>>

\* asyncio.sleep returns, at its deadline or later: after the rate limiter
\* the first POST leaves, after a backoff the next one, and after the sleep
\* that follows the last attempt the send returns False (lines 133-134).
Wake(id) ==
    LET call == ov_calls[id]
    IN  /\ id \in DOMAIN ov_calls
        /\ call.pc \in {"limit", "backoff", "giveup"}
        /\ ov_clock >= call.wake
        /\ ov_calls' = [ov_calls EXCEPT ![id] =
               IF call.pc = "giveup" THEN [@ EXCEPT !.pc = "false"]
               ELSE IF call.pc = "backoff"
               THEN [@ EXCEPT !.pc = "posted", !.attempt = @ + 1,
                              !.post_no = NextPostNo]
               ELSE [@ EXCEPT !.pc = "posted", !.post_no = NextPostNo]]
        /\ ov_posts' = IF call.pc = "giveup" THEN ov_posts ELSE Posted(id)
        /\ UNCHANGED <<busVars, ov_clock, last_send_time, ov_delivered, hcVars,
                       hmVars, dmVars, snVars, lbVars, procVars>>

\* emit, bus.py lines 100-111: gather returns once every send of the call is
\* done, and the call returns its results.
EmitFinish(id) ==
    LET call == ov_calls[id]
        outcomes == [k \in DOMAIN call.tasks |->
                        IF call.tasks[k].name = "telegram" THEN call.pc
                        ELSE "true"]
    IN  /\ id \in DOMAIN ov_calls
        /\ call.pc \in {"none", "true", "false"}
        /\ ret' = [event |-> call.event, tasks |-> call.tasks,
                   outcomes |-> outcomes,
                   results |-> CollectResults(call.tasks, outcomes, 1, EmptyMap)]
        /\ ov_calls' = Without(ov_calls, id)
        /\ UNCHANGED <<notifiers, event_log, emit_count, shutdowns, close_calls,
                       close_last, ov_clock, last_send_time, ov_posts,
                       ov_delivered, hcVars, hmVars, dmVars, snVars, lbVars,
                       procVars>>

\* Half a second passes.
Tick ==
    /\ ov_clock < MaxClock
    /\ ov_clock' = ov_clock + 1
    /\ UNCHANGED <<busVars, ov_calls, last_send_time, ov_posts, ov_delivered,
                   hcVars, hmVars, dmVars, snVars, lbVars, procVars>>

NextOverlap ==
    \/ \E severity \in {DEBUG, INFO}: EmitStart(severity)
    \/ \E id \in 1..MaxEmits, outcome \in OverlapOutcomes:
           Respond(id, outcome, FALSE)
    \/ \E id \in 1..MaxEmits: Wake(id)
    \/ \E id \in 1..MaxEmits: EmitFinish(id)
    \/ Tick

\* ------------------------------------------------------------------------
\* __init__.py: setup_notifications
\* ------------------------------------------------------------------------
\* webhook_notifier.py lines 84-87: the names of BUILTIN_BUILDERS.
BUILTIN_BUILDERS == {"slack", "discord"}

\* What the configuration can hold: WEBHOOK_FORMAT is None or a string
\* (config.py:76), of which "teams" names no builder; a token, a chat id and
\* an url are empty or not.
WebhookFormats == {"None", "slack", "discord", "teams"}

SetupArgs ==
    [telegram_token : BOOLEAN, telegram_chat_id : BOOLEAN,
     webhook_url : BOOLEAN, webhook_format : WebhookFormats,
     install_hooks : BOOLEAN]

NoArgs == [telegram_token |-> FALSE, telegram_chat_id |-> FALSE,
           webhook_url |-> FALSE, webhook_format |-> "None",
           install_hooks |-> FALSE]

\* WebhookNotifier.__init__, lines 127-139: whether the constructor returns;
\* it raises ValueError for a string that names no builder.
BuilderResolved(payload_builder) ==
    payload_builder = "None" \/ payload_builder \in BUILTIN_BUILDERS

\* setup_notifications, lines 79-101: the registrations made one after the
\* other, up to the return or to the constructor that raises.
Registrations(ns, args) ==
    LET with_file == Append(ns, [name |-> "file", min_severity |-> DEBUG,
                                 enabled |-> TRUE])
        with_chat == IF args.telegram_token /\ args.telegram_chat_id
                     THEN Append(with_file, [name |-> "telegram",
                              min_severity |-> INFO, enabled |-> TRUE])
                     ELSE with_file
    IN  IF ~args.webhook_url
        THEN [notifiers |-> with_chat, raised |-> FALSE]
        ELSE IF BuilderResolved(args.webhook_format)
             THEN [notifiers |-> Append(with_chat, [name |-> "webhook",
                       min_severity |-> WARNING, enabled |-> TRUE]),
                   raised |-> FALSE]
             ELSE [notifiers |-> with_chat, raised |-> TRUE]

SetupNotCalled ==
    /\ su_state = "not_called"
    /\ su_args = NoArgs
    /\ bridge_installed = FALSE
    /\ hooks_installed = FALSE

\* The state SetupDone describes: the call returned with Telegram configured
\* and install_hooks.
SetupReturned ==
    /\ su_state = "returned"
    /\ su_args = [telegram_token |-> TRUE, telegram_chat_id |-> TRUE,
                  webhook_url |-> FALSE, webhook_format |-> "None",
                  install_hooks |-> TRUE]
    /\ bridge_installed = TRUE
    /\ hooks_installed = TRUE

\* setup_notifications, lines 53-109. The coroutine awaits nothing: it runs
\* from its first line to its return, or to the exception that leaves it.
Setup(args) ==
    LET done == Registrations(notifiers, args)
        installs == ~done.raised /\ args.install_hooks
    IN  /\ su_state = "not_called"
        /\ su_args' = args
        /\ notifiers' = done.notifiers
        /\ shutdowns' = [i \in 1..Len(done.notifiers) |-> 0]
        /\ su_state' = IF done.raised THEN "raised" ELSE "returned"
        /\ bridge_installed' = installs
        /\ hooks_installed' = installs
        /\ UNCHANGED <<event_log, ret, emit_count, close_calls, close_last,
                       hcVars, hmVars, dmVars, snVars, lbVars, ovVars,
                       elVars, chVars,
                       tailVars>>

\* The caller (main.py:577, watchdog/main.py:122) uses the bus the call
\* returned; an exception out of setup ends startup.
EmitAfterSetup(severity, outcomes) ==
    /\ su_state = "returned"
    /\ Emit(severity, outcomes)

NextSetup ==
    \/ \E args \in SetupArgs: Setup(args)
    \/ \E severity \in EventSeverities:
           \E k \in 0..Len(notifiers):
               \E outcomes \in [1..k -> {"true", "false"}]:
                   EmitAfterSetup(severity, outcomes)

\* ------------------------------------------------------------------------
\* docker_monitor.py: DockerMonitor._event_loop
\* ------------------------------------------------------------------------
\* The task is at the head of the outer loop ("top"), in the inner loop
\* waiting on the queue ("listening") or in the sleep of an except clause
\* ("sleeping"); "idle" is no task. The subscription is what the reader
\* thread of lines 257-264 is doing: iterating the stream ("live"), returned
\* after putting the exception the stream raised on the queue
\* ("docker_error" for a DockerException, "other_error" for any other), or
\* returned because the stream ran out ("ended"); "none" is no reader.
StreamErrors == {"docker_error", "other_error"}

\* The sleeps of the except clauses, lines 284 and 288, in seconds.
DOCKER_ERROR_SLEEP == 10
OTHER_ERROR_SLEEP == 5

\* Inputs: the events delivered while the loop listens.
ListenedActions == {"stop", "kill", "health_status: healthy",
                    "health_status: unhealthy"}

EventLoopConstructed ==
    /\ el_running = FALSE
    /\ el_pc = "idle"
    /\ el_stream = "none"
    /\ el_found = FALSE
    /\ el_warnings = 0
    /\ el_sleep = 0
    /\ el_notified = "none"

\* lines 277-288: the sleep of the except clause that catches the exception.
BackoffOf(stream) ==
    IF stream = "docker_error" THEN DOCKER_ERROR_SLEEP ELSE OTHER_ERROR_SLEEP

\* lines 245-251: the count of 'container not found' warnings after one
\* more pass of the outer loop; the history stops counting at MaxWarnings.
WarningsAfter(found, warnings) ==
    IF found \/ warnings >= MaxWarnings THEN warnings ELSE warnings + 1

\* start, lines 290-294.
StartMonitor ==
    /\ ~el_running
    /\ el_running' = TRUE
    /\ el_pc' = "top"
    /\ el_warnings' = 0
    /\ UNCHANGED <<el_stream, el_found, el_sleep, el_notified,
                   busVars, hcVars, hmVars, dmVars, snVars, lbVars, ovVars,
                   suVars, chVars,
                   tailVars>>

\* stop, lines 296-301: the task is cancelled and the client closed, which
\* ends the reader.
StopMonitor ==
    /\ el_running
    /\ el_running' = FALSE
    /\ el_pc' = "idle"
    /\ el_stream' = "none"
    /\ el_sleep' = 0
    /\ UNCHANGED <<el_found, el_warnings, el_notified,
                   busVars, hcVars, hmVars, dmVars, snVars, lbVars, ovVars,
                   suVars, chVars,
                   tailVars>>

\* lines 235-264: one pass of the outer loop up to the inner loop. The
\* container is looked up, the warning sent when it is not found, and a
\* reader started on a new subscription.
Subscribe ==
    /\ el_running
    /\ el_pc = "top"
    /\ el_warnings' = WarningsAfter(el_found, el_warnings)
    /\ el_notified' = IF el_found THEN el_notified ELSE "warning"
    /\ el_stream' = "live"
    /\ el_pc' = "listening"
    /\ UNCHANGED <<el_running, el_found, el_sleep,
                   busVars, hcVars, hmVars, dmVars, snVars, lbVars, ovVars,
                   suVars, chVars,
                   tailVars>>

\* lines 266-273 with an event on the queue: it is processed.
Listen(action) ==
    /\ el_running
    /\ el_pc = "listening"
    /\ el_stream = "live"
    /\ ProcessEvent(WATCHED_CONTAINER, action, 0, FALSE, "0")

\* lines 271-288 with an exception on the queue: it is raised, caught by the
\* except clause of its class, and the task sleeps.
Raise ==
    /\ el_running
    /\ el_pc = "listening"
    /\ el_stream \in StreamErrors
    /\ el_notified' = IF el_stream = "docker_error" THEN "error"
                      ELSE el_notified
    /\ el_sleep' = BackoffOf(el_stream)
    /\ el_stream' = "none"
    /\ el_pc' = "sleeping"
    /\ UNCHANGED <<el_running, el_found, el_warnings,
                   busVars, hcVars, hmVars, dmVars, snVars, lbVars, ovVars,
                   suVars, chVars,
                   tailVars>>

\* lines 284 and 288: the sleep is over, the outer loop goes round.
WakeMonitor ==
    /\ el_running
    /\ el_pc = "sleeping"
    /\ el_sleep' = 0
    /\ el_pc' = "top"
    /\ UNCHANGED <<el_running, el_stream, el_found, el_warnings, el_notified,
                   busVars, hcVars, hmVars, dmVars, snVars, lbVars, ovVars,
                   suVars, chVars,
                   tailVars>>

\* _reader, lines 257-262, when the stream raises: the exception is put on
\* the queue and the reader returns.
StreamRaises(error) ==
    /\ el_stream = "live"
    /\ el_stream' = error
    /\ UNCHANGED <<el_running, el_pc, el_found, el_warnings, el_sleep,
                   el_notified,
                   busVars, hcVars, hmVars, dmVars, snVars, lbVars, ovVars,
                   suVars, chVars,
                   tailVars>>

\* _iter_events_blocking, lines 226-229, when the stream runs out (the daemon
\* closed the connection): the for loop ends, the generator returns and so
\* does _reader, with nothing put on the queue. The inner loop, lines
\* 266-270, then times out every second and goes round: a step that changes
\* nothing.
StreamEnds ==
    /\ el_stream = "live"
    /\ el_stream' = "ended"
    /\ UNCHANGED <<el_running, el_pc, el_found, el_warnings, el_sleep,
                   el_notified,
                   busVars, hcVars, hmVars, dmVars, snVars, lbVars, ovVars,
                   suVars, chVars,
                   tailVars>>

\* The watched container is created or removed. The count of warnings is of
\* one absence of the container in one run of the monitor.
ContainerChanges ==
    /\ el_found' = ~el_found
    /\ el_warnings' = 0
    /\ UNCHANGED <<el_running, el_pc, el_stream, el_sleep, el_notified,
                   busVars, hcVars, hmVars, dmVars, snVars, lbVars, ovVars,
                   suVars, chVars,
                   tailVars>>

\* The steps the task takes by itself once it can run.
MonitorStep == Subscribe \/ Raise \/ WakeMonitor

NextEventLoop ==
    \/ StartMonitor
    \/ StopMonitor
    \/ Subscribe
    \/ \E action \in ListenedActions: Listen(action)
    \/ Raise
    \/ WakeMonitor
    \/ \E error \in StreamErrors: StreamRaises(error)
    \/ StreamEnds
    \/ ContainerChanges

\* ------------------------------------------------------------------------
\* crash_handler.py: install_exception_hooks
\* ------------------------------------------------------------------------
\* An exception class is the sequence of its bases from the class itself
\* up, so that issubclass is membership.
KeyboardInterruptClass == <<"KeyboardInterrupt", "BaseException">>
RuntimeErrorClass == <<"RuntimeError", "Exception", "BaseException">>

\* Inputs: the classes of the faults that reach a hook.
FaultClasses == {KeyboardInterruptClass, RuntimeErrorClass}

IsSubclass(cls, base) == \E i \in 1..Len(cls): cls[i] = base

\* custom_excepthook, line 105.
NeverInterrupt(exc_type) == FALSE

IsInterrupt(exc_type) == IsSubclass(exc_type, "KeyboardInterrupt")

HooksConstructed ==
    /\ ch_tasks = <<>>
    /\ ch_seen = <<>>
    /\ ch_emitted = <<>>

\* The event both hooks build, lines 109-115 and 133-142.
CrashEvent(fault) ==
    [fault |-> fault, severity |-> CRITICAL, category |-> "crash"]

\* custom_excepthook, lines 103-124, called by the interpreter with an
\* uncaught exception. has_loop is whether asyncio.get_running_loop()
\* returns a loop (line 119) or raises RuntimeError (line 121).
Excepthook(exc_type, has_loop) ==
    LET fault == Len(ch_seen) + 1
        built == ~IsInterrupt(exc_type)
        scheduled == built /\ has_loop
    IN  /\ hooks_installed
        /\ Len(ch_seen) < MaxFaults
        /\ ch_seen' = Append(ch_seen,
               [hook |-> "sys.excepthook", exc_type |-> exc_type,
                built |-> built, scheduled |-> scheduled,
                printed |-> built /\ ~has_loop, passed_on |-> TRUE,
                origin |-> 0])
        /\ ch_tasks' = IF scheduled THEN Append(ch_tasks, CrashEvent(fault))
                       ELSE ch_tasks
        /\ UNCHANGED <<ch_emitted, busVars, hcVars, hmVars, dmVars, snVars,
                       lbVars, ovVars, suVars, elVars,
                       tailVars>>

\* asyncio_exception_handler, lines 129-145, called by the loop with the
\* context of a fault in a task or callback. The loop passes no
\* KeyboardInterrupt to its handler: it re-raises it.
AsyncioHandler(exc_type) ==
    LET fault == Len(ch_seen) + 1
    IN  /\ hooks_installed
        /\ ~IsInterrupt(exc_type)
        /\ Len(ch_seen) < MaxFaults
        /\ ch_seen' = Append(ch_seen,
               [hook |-> "asyncio", exc_type |-> exc_type,
                built |-> TRUE, scheduled |-> TRUE,
                printed |-> FALSE, passed_on |-> FALSE,
                origin |-> 0])
        /\ ch_tasks' = Append(ch_tasks, CrashEvent(fault))
        /\ UNCHANGED <<ch_emitted, busVars, hcVars, hmVars, dmVars, snVars,
                       lbVars, ovVars, suVars, elVars,
                       tailVars>>

\* The task of lines 120 and 145 runs: bus.emit(event).
CrashEmit(outcomes) ==
    /\ ch_tasks # <<>>
    /\ EmitCall(Head(ch_tasks).severity, outcomes)
    /\ ch_tasks' = Tail(ch_tasks)
    /\ ch_emitted' = Append(ch_emitted,
           [fault |-> Head(ch_tasks).fault, id |-> emit_count + 1,
            severity |-> Head(ch_tasks).severity,
            category |-> Head(ch_tasks).category])
    /\ UNCHANGED <<ch_seen, hcVars, hmVars, dmVars, snVars, lbVars, ovVars,
                   suVars, elVars,
                   tailVars>>

\* The task of lines 120 and 145 runs and bus.emit itself raises: not a
\* send, whose exception gather returns (bus.py:100), but the code of emit
\* around it, after the event went into the log (bus.py:82-91). Nothing
\* awaits the task or reads its exception, so when the task is collected
\* the loop calls its exception handler with 'Task exception was never
\* retrieved', and asyncio_exception_handler runs as for any other fault.
\* origin is the fault whose crash event the failed emit carried.
CrashEmitRaises ==
    LET fault == Len(ch_seen) + 1
        event == [id |-> emit_count + 1, severity |-> Head(ch_tasks).severity]
    IN  /\ ch_tasks # <<>>
        /\ hooks_installed
        /\ Len(ch_seen) < MaxFaults
        /\ emit_count < MaxEmits
        /\ emit_count' = emit_count + 1
        /\ event_log' = AppendToLog(event_log, event)
        /\ ret' = NoReturn
        /\ ch_seen' = Append(ch_seen,
               [hook |-> "asyncio", exc_type |-> RuntimeErrorClass,
                built |-> TRUE, scheduled |-> TRUE,
                printed |-> FALSE, passed_on |-> FALSE,
                origin |-> Head(ch_tasks).fault])
        /\ ch_tasks' = Append(Tail(ch_tasks), CrashEvent(fault))
        /\ UNCHANGED <<notifiers, shutdowns, close_calls, close_last,
                       ch_emitted, hcVars, hmVars, dmVars, snVars, lbVars,
                       ovVars, suVars, elVars, tailVars>>

NextHooks ==
    \/ \E exc_type \in FaultClasses, has_loop \in BOOLEAN:
           Excepthook(exc_type, has_loop)
    \/ \E exc_type \in FaultClasses: AsyncioHandler(exc_type)
    \/ \E k \in 0..MaxNotifiers:
           \E outcomes \in [1..k -> Outcomes]: CrashEmit(outcomes)
    \/ CrashEmitRaises

\* ------------------------------------------------------------------------
\* The HTTP session of a sink (telegram_notifier.py, webhook_notifier.py)
\* ------------------------------------------------------------------------
\* Both sinks keep one field, self._session, and the same two methods over
\* it. None of the two methods suspends between the test and the assignment,
\* so each is one step. A send is taken up to the point where it has its
\* session; what the POST ends with has no part in the field.
MaxSessionCalls == 6    \* send and close calls on one sink in one behaviour

SessionKinds == {"telegram", "webhook"}

SessionCalls == {"send", "close"}

\* self._session = None
SessionConstructed(kind) ==
    /\ ss_kind = kind
    /\ ss_session = 0
    /\ ss_sessions = <<>>
    /\ ss_calls = <<>>

\* self._session is None or self._session.closed
NeedsSession == ss_session = 0 \/ ss_sessions[ss_session] = "closed"

\* self._session and not self._session.closed
HasOpenSession == ss_session # 0 /\ ss_sessions[ss_session] = "open"

\* _get_session as the first step of send (the chat id of a Telegram sink
\* is set: setup_notifications builds the sink only then).
SessionSend ==
    /\ Len(ss_calls) < MaxSessionCalls
    /\ ss_calls' = Append(ss_calls, "send")
    /\ IF NeedsSession
       THEN /\ ss_sessions' = Append(ss_sessions, "open")
            /\ ss_session' = Len(ss_sessions) + 1
       ELSE UNCHANGED <<ss_session, ss_sessions>>
    /\ UNCHANGED <<ss_kind, busVars, hcVars, hmVars, dmVars, snVars, lbVars,
                   ovVars, suVars, elVars, chVars, mtVars, fnVars>>

\* close: the field keeps referring to the session it closed.
SessionClose ==
    /\ Len(ss_calls) < MaxSessionCalls
    /\ ss_calls' = Append(ss_calls, "close")
    /\ IF HasOpenSession
       THEN ss_sessions' = [ss_sessions EXCEPT ![ss_session] = "closed"]
       ELSE UNCHANGED ss_sessions
    /\ UNCHANGED <<ss_kind, ss_session, busVars, hcVars, hmVars, dmVars,
                   snVars, lbVars, ovVars, suVars, elVars, chVars, mtVars,
                   fnVars>>

NextSession == SessionSend \/ SessionClose

\* ------------------------------------------------------------------------
\* The loop task of a monitor: start, stop and the iterations of the loop
\* (health_checker.py, host_monitor.py, docker_monitor.py)
\* ------------------------------------------------------------------------
\* The three monitors share start and stop word for word and differ in the
\* try blocks of their loops. An iteration is one observation (the GET of
\* the HealthChecker, the sampling of the HostMonitor, one item of the event
\* stream of the DockerMonitor), the evaluation, and the callback the
\* evaluation may call. What the evaluation decides is modelled apart
\* (HealthLoop, HostLoop, ProcessEvent); here the callback is called or
\* not, and returns or raises. The GET suspends the task, so the iteration
\* of the HealthChecker takes two steps; the sampling and the handling of a
\* queue item do not.
MaxMonitorCalls == 3    \* start and stop calls on one monitor in one behaviour
MaxIterations == 3      \* loop iterations of one monitor in one behaviour

MonitorKinds == {"health", "host", "docker"}

CallbackOutcomes == {"none", "returns", "raises"}

\* What an observation ends with: "ok" or the class of the exception.
Observations(kind) ==
    CASE kind = "health" -> {"ok", "TimeoutError", "Exception"}
      [] kind = "host"   -> {"ok", "Exception"}
      [] kind = "docker" -> {"ok", "DockerException", "Exception"}

\* 'except Exception' with every class but CancelledError, which has been a
\* BaseException since Python 3.8.
CaughtAlways(exc) == TRUE

CaughtNever(exc) == FALSE

CaughtByException(exc) == exc # "CancelledError"

\* The callbacks the evaluation can call after an observation: the
\* HostMonitor leaves the try before _check_thresholds when the sampling
\* raised; the DockerMonitor notifies a DockerException and nothing for any
\* other exception.
CallbacksAfter(kind, obs) ==
    CASE kind = "health" -> CallbackOutcomes
      [] kind = "host"   -> IF obs = "ok" THEN CallbackOutcomes ELSE {"none"}
      [] kind = "docker" ->
            IF obs = "ok" THEN CallbackOutcomes
            ELSE IF obs = "DockerException" THEN {"returns", "raises"}
            ELSE {"none"}

\* Where the iteration leaves the task: "sleeping" in the sleep (or the
\* queue wait) the next iteration follows, "failed" when an exception went
\* out of the coroutine.
AfterIteration(kind, obs, cb) ==
    CASE kind = "health" ->
            IF obs # "ok" /\ obs # "TimeoutError" /\ ~CaughtByException(obs)
            THEN "failed"
            ELSE IF cb = "raises" THEN "failed" ELSE "sleeping"
      [] kind = "host" ->
            IF obs # "ok" /\ ~CaughtByException(obs) THEN "failed"
            ELSE IF cb = "raises" /\ ~CaughtByException("Exception")
                 THEN "failed" ELSE "sleeping"
      [] kind = "docker" ->
            IF obs = "ok"
            THEN IF cb = "raises" /\ ~CaughtByException("Exception")
                 THEN "failed" ELSE "sleeping"
            ELSE IF obs = "DockerException"
                 THEN IF cb = "raises" THEN "failed" ELSE "sleeping"
                 ELSE IF CaughtByException(obs) THEN "sleeping" ELSE "failed"

\* self._running = False, self._task = None
MonitorConstructed(kind) ==
    /\ mt_kind = kind
    /\ mt_running = FALSE
    /\ mt_task = 0
    /\ mt_tasks = <<>>
    /\ mt_calls = <<>>
    /\ mt_log = <<>>

MonitorOthers ==
    <<busVars, hcVars, hmVars, dmVars, snVars, lbVars, ovVars, suVars,
      elVars, chVars, ssVars, fnVars>>

Suspended(task) == task.pc \in {"created", "observing", "sleeping"}

\* start
MonitorStart ==
    /\ Len(mt_calls) < MaxMonitorCalls
    /\ mt_calls' = Append(mt_calls, "start")
    /\ IF mt_running
       THEN UNCHANGED <<mt_running, mt_task, mt_tasks>>
       ELSE /\ mt_running' = TRUE
            /\ mt_tasks' = Append(mt_tasks, [pc |-> "created",
                                             must_cancel |-> FALSE,
                                             stopped |-> FALSE])
            /\ mt_task' = Len(mt_tasks) + 1
    /\ UNCHANGED <<mt_kind, mt_log, MonitorOthers>>

\* stop: Task.cancel does nothing on a task that is done.
MonitorStop ==
    /\ Len(mt_calls) < MaxMonitorCalls
    /\ mt_calls' = Append(mt_calls, "stop")
    /\ mt_running' = FALSE
    /\ IF mt_task # 0 /\ Suspended(mt_tasks[mt_task])
       THEN mt_tasks' = [mt_tasks EXCEPT ![mt_task].must_cancel = TRUE,
                                         ![mt_task].stopped = TRUE]
       ELSE UNCHANGED mt_tasks
    /\ UNCHANGED <<mt_kind, mt_task, mt_log, MonitorOthers>>

Entry(t, obs, cb, after) ==
    [task |-> t, obs |-> obs, cb |-> cb, after |-> after,
     stopped |-> mt_tasks[t].stopped]

\* The task is resumed at the top of the loop: 'while self._running'. The
\* HealthChecker goes into its GET; the other two run the iteration.
TaskResumes(t) ==
    /\ mt_tasks[t].pc \in {"created", "sleeping"}
    /\ ~mt_tasks[t].must_cancel
    /\ IF ~mt_running
       THEN /\ mt_tasks' = [mt_tasks EXCEPT ![t].pc = "returned"]
            /\ UNCHANGED mt_log
       ELSE IF mt_kind = "health"
       THEN /\ mt_tasks' = [mt_tasks EXCEPT ![t].pc = "observing"]
            /\ UNCHANGED mt_log
       ELSE /\ Len(mt_log) < MaxIterations
            /\ \E obs \in Observations(mt_kind):
                   \E cb \in CallbacksAfter(mt_kind, obs):
                       LET after == AfterIteration(mt_kind, obs, cb) IN
                       /\ mt_tasks' = [mt_tasks EXCEPT ![t].pc = after]
                       /\ mt_log' = Append(mt_log, Entry(t, obs, cb, after))
    /\ UNCHANGED <<mt_kind, mt_running, mt_task, mt_calls, MonitorOthers>>

\* The GET of the HealthChecker ends and the rest of the iteration runs.
TaskObserved(t) ==
    /\ mt_tasks[t].pc = "observing"
    /\ ~mt_tasks[t].must_cancel
    /\ Len(mt_log) < MaxIterations
    /\ \E obs \in Observations(mt_kind):
           \E cb \in CallbacksAfter(mt_kind, obs):
               LET after == AfterIteration(mt_kind, obs, cb) IN
               /\ mt_tasks' = [mt_tasks EXCEPT ![t].pc = after]
               /\ mt_log' = Append(mt_log, Entry(t, obs, cb, after))
    /\ UNCHANGED <<mt_kind, mt_running, mt_task, mt_calls, MonitorOthers>>

\* Whether the suspension the task is in lies inside a try with an
\* 'except Exception': the GET (health_checker.py:71-90) and the queue wait
\* (docker_monitor.py:236-288) do, the interval sleeps do not.
SuspendedInTry(t) ==
    \/ mt_tasks[t].pc = "observing"
    \/ mt_kind = "docker" /\ mt_tasks[t].pc = "sleeping"

\* The event loop throws CancelledError into the suspension of a task that
\* was cancelled. A handler that took it would let the task go on.
TaskCancelled(t) ==
    /\ Suspended(mt_tasks[t])
    /\ mt_tasks[t].must_cancel
    /\ IF SuspendedInTry(t) /\ CaughtByException("CancelledError")
       THEN /\ Len(mt_log) < MaxIterations
            /\ \E cb \in CallbacksAfter(mt_kind, "Exception"):
                   LET after == AfterIteration(mt_kind, "Exception", cb) IN
                   /\ mt_tasks' = [mt_tasks EXCEPT ![t].pc = after,
                                                   ![t].must_cancel = FALSE]
                   /\ mt_log' = Append(mt_log,
                                       Entry(t, "CancelledError", cb, after))
       ELSE /\ mt_tasks' = [mt_tasks EXCEPT ![t].pc = "cancelled",
                                            ![t].must_cancel = FALSE]
            /\ UNCHANGED mt_log
    /\ UNCHANGED <<mt_kind, mt_running, mt_task, mt_calls, MonitorOthers>>

NextMonitor ==
    \/ MonitorStart
    \/ MonitorStop
    \/ \E t \in 1..Len(mt_tasks): TaskResumes(t)
    \/ \E t \in 1..Len(mt_tasks): TaskObserved(t)
    \/ \E t \in 1..Len(mt_tasks): TaskCancelled(t)

\* ------------------------------------------------------------------------
\* FileNotifier.send (file_notifier.py)
\* ------------------------------------------------------------------------
MaxFileSends == 3       \* send calls on one FileNotifier in one behaviour

\* What self._file_logger.info(text) ends with. The handler of the logger
\* is a logging.handlers.RotatingFileHandler, whose emit catches the
\* exception of a failed rollover or write and hands it to handleError,
\* which writes a traceback to stderr and returns: the failure of the write
\* does not reach the caller ("swallowed"). "raises" is an exception that
\* leaves the call all the same.
FileOutcomes == {"written", "swallowed", "raises"}

\* What a print ends with.
PrintOutcomes == {"printed", "raises"}

\* __init__: self._file_logger is None when the log directory or the
\* handler could not be made.
FileNotifierConstructed(file_logger, console_output) ==
    /\ fn_file_logger = file_logger
    /\ fn_console_output = console_output
    /\ fn_sends = <<>>

\* send. file is what the write ended with ("skipped" without a file
\* logger), console what reached the console ("event": the event in colour,
\* "error": the line of the except clause, "failed": a print that raised,
\* "none": no print was made), result what send returned, or "raise".
SendOutcome(file, print1, print2) ==
    IF file = "raises"
    THEN [file |-> file,
          console |-> IF print2 = "printed" THEN "error" ELSE "failed",
          result |-> IF print2 = "printed" THEN "false" ELSE "raise"]
    ELSE IF ~fn_console_output
    THEN [file |-> file, console |-> "none", result |-> "true"]
    ELSE IF print1 = "printed"
    THEN [file |-> file, console |-> "event", result |-> "true"]
    ELSE [file |-> file,
          console |-> IF print2 = "printed" THEN "error" ELSE "failed",
          result |-> IF print2 = "printed" THEN "false" ELSE "raise"]

FileSend(file, print1, print2) ==
    /\ Len(fn_sends) < MaxFileSends
    /\ fn_file_logger \/ file = "skipped"
    /\ ~fn_file_logger \/ file \in FileOutcomes
    /\ fn_sends' = Append(fn_sends, SendOutcome(file, print1, print2))
    /\ UNCHANGED <<fn_file_logger, fn_console_output, busVars, hcVars,
                   hmVars, dmVars, snVars, lbVars, ovVars, suVars, elVars,
                   chVars, ssVars, mtVars>>

NextFile ==
    \E file \in FileOutcomes \cup {"skipped"}:
        \E print1 \in PrintOutcomes, print2 \in PrintOutcomes:
            FileSend(file, print1, print2)

\* ------------------------------------------------------------------------
\* Specifications
\* ------------------------------------------------------------------------
TailConstructed ==
    /\ SessionConstructed("telegram")
    /\ MonitorConstructed("health")
    /\ FileNotifierConstructed(TRUE, TRUE)

ConstructedButTail ==
    /\ BusInit
    /\ HealthConstructed(DefaultThreshold)
    /\ HostConstructed
    /\ DockerConstructed
    /\ SinkConstructed("telegram", TELEGRAM_RETRIES)
    /\ BridgeConstructed
    /\ OverlapConstructed
    /\ SetupNotCalled
    /\ EventLoopConstructed
    /\ HooksConstructed

Constructed == ConstructedButTail /\ TailConstructed

SpecBus == Constructed /\ [][NextBus]_vars

\* The bus over its whole life: register, unregister, emit and close. The
\* filter of a notifier and what its sends end with have no part in close
\* and are held fixed.
NextLifecycle ==
    \/ \E name \in NotifierNames: Register(name, INFO, TRUE)
    \/ \E name \in NotifierNames: Unregister(name)
    \/ \E k \in 0..MaxNotifiers: Emit(WARNING, [i \in 1..k |-> "true"])
    \/ \E k \in 0..MaxNotifiers:
           \E outcomes \in [1..k -> ShutdownOutcomes]: Close(outcomes)

SpecLifecycle == Constructed /\ [][NextLifecycle]_vars

\* A HealthChecker built with any threshold from 1 to MaxThreshold.
ConstructedAnyThreshold ==
    /\ BusInit
    /\ \E t \in 1..MaxThreshold: HealthConstructed(t)
    /\ HostConstructed
    /\ DockerConstructed
    /\ SinkConstructed("telegram", TELEGRAM_RETRIES)
    /\ BridgeConstructed
    /\ OverlapConstructed
    /\ SetupNotCalled
    /\ EventLoopConstructed
    /\ HooksConstructed
    /\ TailConstructed

SpecHealth == ConstructedAnyThreshold /\ [][NextHealth]_vars

\* A sink of either kind built with any retry budget up to MaxRetries.
ConstructedAnySink ==
    /\ BusInit
    /\ HealthConstructed(DefaultThreshold)
    /\ HostConstructed
    /\ DockerConstructed
    /\ \E kind \in SinkKinds, max_retries \in 0..MaxRetries:
           SinkConstructed(kind, max_retries)
    /\ BridgeConstructed
    /\ OverlapConstructed
    /\ SetupNotCalled
    /\ EventLoopConstructed
    /\ HooksConstructed
    /\ TailConstructed

SpecSend == ConstructedAnySink /\ [][NextSend]_vars

\* The process once setup_notifications has returned.
SetupDone ==
    /\ BridgeInstalled
    /\ HealthConstructed(DefaultThreshold)
    /\ HostConstructed
    /\ DockerConstructed
    /\ SinkConstructed("telegram", TELEGRAM_RETRIES)
    /\ OverlapConstructed
    /\ SetupReturned
    /\ EventLoopConstructed
    /\ HooksConstructed
    /\ TailConstructed

SpecBridge == SetupDone /\ [][NextBridge]_vars

SpecOverlap == SetupDone /\ [][NextOverlap]_vars

\* Overlapping emit calls whose POSTs are answered at the first attempt: the
\* history of the bus does not depend on how a send goes on.
NextHistory ==
    \/ \E severity \in {DEBUG, INFO}: EmitStart(severity)
    \/ \E id \in 1..MaxEmits, outcome \in {Response(200, <<>>), Response(400, <<>>)}:
           Respond(id, outcome, FALSE)
    \/ \E id \in 1..MaxEmits: Wake(id)
    \/ \E id \in 1..MaxEmits: EmitFinish(id)
    \/ Tick

SpecHistory == SetupDone /\ [][NextHistory]_vars

\* setup_notifications called once with any configuration, and the bus it
\* returned in use.
SpecSetup == Constructed /\ [][NextSetup]_vars

\* The event loop of the DockerMonitor. Once the task can take a step it
\* takes it: asyncio runs a task that is ready, and a sleep ends.
SpecEventLoop ==
    Constructed /\ [][NextEventLoop]_vars /\ WF_vars(MonitorStep)

\* The exception hooks after setup_notifications installed them.
SpecHooks == SetupDone /\ [][NextHooks]_vars

SpecHost == Constructed /\ [][NextHost]_vars

\* The HostMonitor with a callback that may raise.
SpecHostNotify == Constructed /\ [][NextHostNotify]_vars

SpecDocker == Constructed /\ [][NextDocker]_vars

SpecDie == Constructed /\ [][NextDie]_vars

SpecWindow == Constructed /\ [][NextWindow]_vars

SpecHealthStatus == Constructed /\ [][NextHealthStatus]_vars

\* One sink of either kind, and the sends and closes made on it.
SessionStart ==
    /\ ConstructedButTail
    /\ \E kind \in SessionKinds: SessionConstructed(kind)
    /\ MonitorConstructed("health")
    /\ FileNotifierConstructed(TRUE, TRUE)

SpecSession == SessionStart /\ [][NextSession]_vars

\* One monitor of any of the three kinds.
MonitorStartOfDay ==
    /\ ConstructedButTail
    /\ SessionConstructed("telegram")
    /\ \E kind \in MonitorKinds: MonitorConstructed(kind)
    /\ FileNotifierConstructed(TRUE, TRUE)

SpecMonitor == MonitorStartOfDay /\ [][NextMonitor]_vars

\* One FileNotifier, with or without its file logger and its console.
FileStart ==
    /\ ConstructedButTail
    /\ SessionConstructed("telegram")
    /\ MonitorConstructed("health")
    /\ \E file_logger \in BOOLEAN, console_output \in BOOLEAN:
           FileNotifierConstructed(file_logger, console_output)

SpecFile == FileStart /\ [][NextFile]_vars

\* ------------------------------------------------------------------------
\* Properties of the bus
\* ------------------------------------------------------------------------
Returned == ret.event.id > 0

\* How many send coroutines the returned emit built for the notifier at pos i.
Invocations(i) == Cardinality({k \in DOMAIN ret.tasks: ret.tasks[k].pos = i})

\* C1: for the event e of an emit and every notifier n registered at that
\* moment, n.send(e) is invoked exactly once if n.enabled and
\* n.min_severity <= e.severity, and not at all otherwise.
C1_SendIffAccepted ==
    Returned =>
        /\ \A k \in DOMAIN ret.tasks: ret.tasks[k].pos \in 1..Len(notifiers)
        /\ \A i \in 1..Len(notifiers):
               Invocations(i) =
                   IF notifiers[i].enabled
                      /\ notifiers[i].min_severity <= ret.event.severity
                   THEN 1 ELSE 0

\* An emit that invoked one notifier and skipped two kinds of others: one
\* that is disabled, or one whose threshold is above the event.
C1_Witness ==
    /\ Returned
    /\ \E i, j \in 1..Len(notifiers):
           /\ Invocations(i) = 1
           /\ Invocations(j) = 0
           /\ notifiers[j].enabled
           /\ notifiers[j].min_severity > ret.event.severity

\* C2: within one emit, a notifier whose send fails (raises or returns
\* false) does not keep the others from being run, and every notifier whose
\* send returned true is reported true in the result map of that emit.
C2_SuccessReportedTrue ==
    Returned =>
        /\ DOMAIN ret.outcomes = DOMAIN ret.tasks
        /\ \A k \in DOMAIN ret.tasks:
               ret.outcomes[k] = "true" =>
                   /\ ret.tasks[k].name \in DOMAIN ret.results
                   /\ ret.results[ret.tasks[k].name] = TRUE

\* C3: a fault raised by a notifier during delivery is recorded as false for
\* that notifier and for no other, and emit returns a result map that has an
\* entry for every notifier it ran.
C3_FaultRecordedFalse ==
    Returned =>
        /\ DOMAIN ret.results = {ret.tasks[k].name : k \in DOMAIN ret.tasks}
        /\ \A k \in DOMAIN ret.tasks:
               /\ ret.outcomes[k] = "raise" => ret.results[ret.tasks[k].name] = FALSE
               /\ ret.results[ret.tasks[k].name] = FALSE => ret.outcomes[k] # "true"

\* The part of C2 and C3 that the code does guarantee: when the notifiers run
\* by an emit have pairwise different names, the result map reports exactly
\* how each send ended.
DistinctTaskNames ==
    \A j, k \in DOMAIN ret.tasks: ret.tasks[j].name = ret.tasks[k].name => j = k

ResultsFaithfulWhenNamesDistinct ==
    (Returned /\ DistinctTaskNames) =>
        \A k \in DOMAIN ret.tasks:
            ret.results[ret.tasks[k].name] = (ret.outcomes[k] = "true")

Min(a, b) == IF a <= b THEN a ELSE b

\* C4: the history never holds more than its capacity, and it holds exactly
\* the most recently emitted events in emission order; after capacity+1 emits
\* the first emitted event is gone and the newest is present.
C4_HistoryRing ==
    /\ Len(event_log) <= max_log_size
    /\ Len(event_log) = Min(emit_count, max_log_size)
    /\ \A i \in 1..Len(event_log):
           event_log[i].id = emit_count - Len(event_log) + i
    /\ emit_count = max_log_size + 1 =>
           /\ \A i \in 1..Len(event_log): event_log[i].id # 1
           /\ event_log[Len(event_log)].id = max_log_size + 1

C4_Witness ==
    /\ emit_count = max_log_size + 1
    /\ Len(event_log) = max_log_size
    /\ event_log[1].id = 2

\* ------------------------------------------------------------------------
\* Properties of the HealthChecker
\* ------------------------------------------------------------------------
\* Length of the run of consecutive failed checks that ends at check k
\* (0 when check k succeeded).
RECURSIVE RunLength(_)
RunLength(k) ==
    IF k = 0 \/ hc_results[k] THEN 0 ELSE 1 + RunLength(k - 1)

\* C5: in every maximal run of consecutive failed checks, the ERROR alert
\* is sent on the failure that brings the run to the threshold and on no
\* other failure: one alert for a run that reaches the threshold, none for a
\* shorter run, nothing more however long the run lasts.
C5_OneAlertPerRun ==
    \A k \in 1..Len(hc_results):
        ~hc_results[k] =>
            /\ hc_notified[k] \in {"error", "none"}
            /\ hc_notified[k] = "error" <=> RunLength(k) = threshold

\* A run longer than the threshold: alerted at the threshold, silent after.
C5_Witness ==
    \E k \in 1..Len(hc_results):
        /\ RunLength(k) > threshold
        /\ hc_notified[k] = "none"
        /\ hc_notified[k - RunLength(k) + threshold] = "error"

\* An ERROR alert was sent in the run of failures that check k ends.
AlertInRunBefore(k) ==
    \E j \in 1..(k - 1):
        /\ hc_notified[j] = "error"
        /\ \A i \in j..(k - 1): ~hc_results[i]

\* C6: a successful check sends one INFO recovery exactly when an ERROR
\* alert was sent during the downtime it ends; after every successful check
\* consecutive_failures = 0, is_healthy, not alerted, downtime_start None.
C6_RecoveryIffAlerted ==
    /\ \A k \in 1..Len(hc_results):
           hc_results[k] =>
               /\ hc_notified[k] \in {"info", "none"}
               /\ hc_notified[k] = "info" <=> AlertInRunBefore(k)
    /\ (Len(hc_results) > 0 /\ hc_results[Len(hc_results)]) =>
           /\ consecutive_failures = 0
           /\ is_healthy
           /\ ~alerted
           /\ downtime_start = <<>>

\* Both kinds of success happened: one that ends an alerted downtime and
\* sends the recovery, one that ends a shorter run of failures silently.
C6_Witness ==
    /\ \E k \in 2..Len(hc_results):
           hc_results[k] /\ hc_notified[k] = "info"
    /\ \E k \in 2..Len(hc_results):
           hc_results[k] /\ ~hc_results[k - 1] /\ hc_notified[k] = "none"

\* ------------------------------------------------------------------------
\* Properties of the HostMonitor
\* ------------------------------------------------------------------------
Alerts(trace) == {i \in 1..Len(trace): trace[i].notified \in {"warning", "error"}}

Recoveries(trace) == {i \in 1..Len(trace): trace[i].notified = "info"}

Values(trace) == [i \in 1..Len(trace) |-> trace[i].value]

\* C7: for each metric on each sample, an alert is sent iff value >=
\* threshold and the flag was false (the flag becomes true; ERROR if value >=
\* 95, else WARNING); a recovery INFO is sent iff value < 0.9 x threshold and
\* the flag was true (the flag becomes false); otherwise nothing is sent and
\* the flag is unchanged. With threshold 90, samples [85,91,89,82] give one
\* alert (at 91) and no recovery; [85,91,79] give one alert and one recovery.
C7_Hysteresis ==
    /\ hm_samples > 0 =>
           \A m \in Metrics:
               LET v == metrics[m]
                   t == Thresholds[m]
                   was == hm_prev_active[m]
                   out == hm_notified[m]
               IN  /\ out \in {"warning", "error"} <=> (v >= t /\ ~was)
                   /\ out \in {"warning", "error"} =>
                          /\ alert_active[m]
                          /\ out = IF v >= 95 THEN "error" ELSE "warning"
                   /\ out = "info" <=> (10 * v < 9 * t /\ was)
                   /\ out = "info" => ~alert_active[m]
                   /\ out = "none" => alert_active[m] = was
    /\ (Thresholds["cpu"] = 90 /\ Values(hm_trace) = <<85, 91, 89, 82>>) =>
           /\ Alerts(hm_trace) = {2}
           /\ Recoveries(hm_trace) = {}
    /\ (Thresholds["cpu"] = 90 /\ Values(hm_trace) = <<85, 91, 79>>) =>
           /\ Alerts(hm_trace) = {2}
           /\ Recoveries(hm_trace) = {3}

\* The first scenario has run, and in the same sample another metric sent an
\* ERROR alert.
C7_Witness ==
    /\ Values(hm_trace) = <<85, 91, 89, 82>>
    /\ \E m \in Metrics: hm_notified[m] = "error"

\* C8: for each metric, alerts and recoveries alternate, starting with an
\* alert; before every alert but the first, and at every recovery, a value
\* below 0.9 x threshold was sampled since the previous alert; a metric that
\* never went below 0.9 x threshold has sent at most one alert, no recovery.
C8_AntiFlap ==
    \A m \in Metrics:
        /\ \A i \in 1..Len(hm_events[m]):
               /\ hm_events[m][i].kind = IF i % 2 = 1 THEN "alert" ELSE "recovery"
               /\ i > 1 => hm_events[m][i].low_before
        /\ ~hm_ever_low[m] =>
               /\ Len(hm_events[m]) <= 1
               /\ \A i \in 1..Len(hm_events[m]): hm_events[m][i].kind = "alert"

\* cpu alerted, fell into the band between 0.9 x threshold and the threshold,
\* crossed the threshold again without a second alert, then recovered; and
\* some metric alerted, recovered and alerted a second time.
C8_Witness ==
    /\ Values(hm_trace) = <<91, 89, 91, 79>>
    /\ Len(hm_events["cpu"]) = 2
    /\ \E m \in Metrics: Len(hm_events[m]) = 3

\* ------------------------------------------------------------------------
\* Properties of the DockerMonitor
\* ------------------------------------------------------------------------
\* Number of starts, the i-th included, in the 300 s that end at the i-th.
StartsInWindow(i) ==
    Cardinality({j \in 1..i: dm_starts[i].time - dm_starts[j].time < 300})

\* C9: every processed start of the watched container adds one to the
\* restart counter; it sends a CRITICAL restart-loop alert iff at least 3
\* starts, itself included, lie in the trailing 300 s; otherwise a WARNING iff
\* it is not the first start; never both. Three starts within 100 s give one
\* CRITICAL, on the third; three starts 400 s apart give none.
C9_RestartLoop ==
    /\ restart_count = Len(dm_starts)
    /\ \A i \in 1..Len(dm_starts):
           /\ dm_starts[i].notified = "critical" <=> StartsInWindow(i) >= 3
           /\ dm_starts[i].notified = "warning" <=> (StartsInWindow(i) < 3 /\ i > 1)
           /\ dm_starts[i].notified = "none" <=> (StartsInWindow(i) < 3 /\ i = 1)
    /\ (Len(dm_starts) >= 3 /\ dm_starts[3].time - dm_starts[1].time <= 100) =>
           {i \in 1..3: dm_starts[i].notified = "critical"} = {3}
    /\ (\A i \in 2..Len(dm_starts):
            dm_starts[i].time - dm_starts[i - 1].time >= 400) =>
           \A i \in 1..Len(dm_starts): dm_starts[i].notified # "critical"

\* More starts than the deque holds, 50 s apart, the last one still CRITICAL.
C9_Witness ==
    /\ Len(dm_starts) > RESTART_LOOP_COUNT * 2
    /\ dm_starts[Len(dm_starts)].time - dm_starts[1].time < 300 + 50
    /\ dm_starts[Len(dm_starts)].notified = "critical"

\* C10: an ERROR is sent only by an "unhealthy" health-status event whose
\* previously recorded status was not "unhealthy" (and by every such event);
\* an INFO only by a "healthy" event whose previously recorded status was
\* "unhealthy"; every health-status event updates the recorded status.
C10_HealthDebounce ==
    dm_last.action \in {"health_status: healthy", "health_status: unhealthy"} =>
        LET unhealthy == dm_last.action = "health_status: unhealthy"
        IN  /\ dm_last.notified = "error" <=>
                   (unhealthy /\ dm_last.prev # "unhealthy")
            /\ dm_last.notified = "info" <=>
                   (~unhealthy /\ dm_last.prev = "unhealthy")
            /\ dm_last.notified \in {"error", "info", "none"}
            /\ last_status = IF unhealthy THEN "unhealthy" ELSE "healthy"

\* A repeated "unhealthy" event that sent nothing.
C10_Witness ==
    /\ dm_last.action = "health_status: unhealthy"
    /\ dm_last.prev = "unhealthy"
    /\ dm_last.notified = "none"
    /\ restart_count > 0

\* ------------------------------------------------------------------------
\* NotificationBus: registration and close
\* ------------------------------------------------------------------------

\* C16: no two registered notifiers share a name, after any sequence of
\* register and unregister calls.
C16_NamesUnique ==
    \A i, j \in DOMAIN notifiers:
        i # j => notifiers[i].name # notifiers[j].name

\* C17: over any sequence of register, emit and close calls, close() of a
\* registered notifier is never invoked a second time, and a close call that
\* has returned leaves no registered notifier with its close() not invoked.
C17_ClosedExactlyOnce ==
    /\ \A i \in DOMAIN shutdowns: shutdowns[i] <= 1
    /\ close_last.returned => \A i \in DOMAIN shutdowns: shutdowns[i] = 1

\* C18: a close call invokes close() of every registered notifier, whichever
\* of them raise, and returns normally.
C18_CloseIsolatesErrors ==
    close_last # NoClose =>
        /\ close_last.returned
        /\ \A i \in DOMAIN close_last.outcomes:
               close_last.after[i] = close_last.before[i] + 1

\* A close in which one notifier raised and a later one was still closed.
C18_Witness ==
    /\ close_last.returned
    /\ \E i, j \in DOMAIN close_last.outcomes:
           /\ i < j
           /\ close_last.outcomes[i] = "raise"
           /\ close_last.after[j] = close_last.before[j] + 1

\* ------------------------------------------------------------------------
\* TelegramNotifier, WebhookNotifier: the retry loop
\* ------------------------------------------------------------------------
StatusesOf(posts) == [i \in 1..Len(posts) |-> posts[i].status]

Succeeded(i) ==
    sn_posts[i].kind = "response" /\ Success(sn_kind, sn_posts[i].status)

RetryableFailure(i) ==
    \/ sn_posts[i].kind = "neterr"
    \/ ~Success(sn_kind, sn_posts[i].status) /\ Retryable(sn_posts[i].status)

\* The statuses after which the claims say a send gives up at once: for the
\* chat sink a 4xx other than 429, for the webhook sink any status that is
\* neither a success nor 429 nor 5xx.
Permanent(i) ==
    /\ sn_posts[i].kind = "response"
    /\ sn_posts[i].status # 429
    /\ sn_posts[i].status < 500
    /\ IF sn_kind = "telegram"
       THEN sn_posts[i].status >= 400
       ELSE sn_posts[i].status >= 300

\* C11: a send of the chat sink that was answered 429, 429, 200 has returned
\* success after exactly three POSTs and exactly two sleeps between them, one
\* after each 429 and as long as that 429 asked for.
C11_RateLimitedTwiceThenSuccess ==
    (sn_kind = "telegram" /\ StatusesOf(sn_posts) = <<429, 429, 200>>) =>
        /\ sn_pc = "done"
        /\ sn_result = "true"
        /\ Len(sn_sleeps) = 2
        /\ \A i \in 1..2:
               /\ sn_sleeps[i].after = i
               /\ sn_posts[i].retry_after # <<>> =>
                      sn_sleeps[i].duration = Seconds(sn_posts[i].retry_after[1])

\* 429 twice, with two different retry_after values, then 200.
C11_Witness ==
    /\ sn_kind = "telegram"
    /\ StatusesOf(sn_posts) = <<429, 429, 200>>
    /\ sn_posts[1].retry_after = <<1>>
    /\ sn_posts[2].retry_after = <<30>>
    /\ sn_result = "true"

\* C12: a send makes at most max_retries POSTs and a further one is pending
\* only while fewer have been made; it returns true iff one of them
\* succeeded, and false once max_retries of them failed retryably.
C12_BoundedRetries ==
    /\ Len(sn_posts) <= sn_max_retries
    /\ sn_pc = "attempt" => Len(sn_posts) < sn_max_retries
    /\ sn_pc = "done" =>
           /\ sn_result \in {"true", "false"}
           /\ sn_result = "true" <=> \E i \in DOMAIN sn_posts: Succeeded(i)
    /\ (/\ sn_pc # "idle"
        /\ Len(sn_posts) = sn_max_retries
        /\ \A i \in DOMAIN sn_posts: RetryableFailure(i))
           => sn_pc = "done" /\ sn_result = "false"

\* Both sinks exhaust a budget of two or more on retryable failures.
C12_Witness ==
    /\ sn_max_retries >= 2
    /\ Len(sn_posts) = sn_max_retries
    /\ \A i \in DOMAIN sn_posts: RetryableFailure(i)
    /\ \E i \in DOMAIN sn_posts: sn_posts[i].kind = "neterr"
    /\ sn_result = "false"

\* C13: a permanent transport error is the last POST of its send, which has
\* returned false without sleeping after it.
C13_PermanentNotRetried ==
    \A i \in DOMAIN sn_posts:
        Permanent(i) =>
            /\ i = Len(sn_posts)
            /\ sn_pc = "done"
            /\ sn_result = "false"
            /\ \A k \in DOMAIN sn_sleeps: sn_sleeps[k].after # i

\* A permanent error after a retried failure, with budget left.
C13_Witness ==
    /\ Len(sn_posts) = 2
    /\ sn_max_retries > 2
    /\ RetryableFailure(1)
    /\ Permanent(2)
    /\ sn_result = "false"

\* ------------------------------------------------------------------------
\* LoggingBridge: loop prevention
\* ------------------------------------------------------------------------
\* The logger of the package or of anything below it.
UnderNamespace(name) ==
    name = <<Package>> \/ StartsWith(name, <<Package, ".">>)

\* C15: no record of a logger under the namespace of the notification
\* package becomes an event or a task for the bus, and no record logged
\* while a bridge-originated emit delivers does.
C15_NoFeedbackLoop ==
    /\ \A i \in DOMAIN lb_seen:
           (UnderNamespace(lb_seen[i].name) \/ lb_seen[i].origin = "emit")
               => ~lb_seen[i].forwarded
    /\ \A k \in DOMAIN lb_tasks: ~UnderNamespace(lb_tasks[k].source)

\* A record of the application was forwarded, the bus logged a failed send
\* of that emit, and a record of notifications.file.file was logged as well.
C15_Witness ==
    /\ \E i \in DOMAIN lb_seen:
           lb_seen[i].origin = "program" /\ lb_seen[i].forwarded
    /\ \E i \in DOMAIN lb_seen:
           lb_seen[i].origin = "emit" /\ lb_seen[i].name = BusLogger
    /\ \E i \in DOMAIN lb_seen:
           lb_seen[i].name = <<Package, ".", "file", ".", "file">>

\* ------------------------------------------------------------------------
\* Overlapping emit calls
\* ------------------------------------------------------------------------

\* C14: any two consecutive POSTs of one TelegramNotifier are at least the
\* minimum interval apart, whichever way the send calls interleave.
C14_MinIntervalBetweenPosts ==
    Len(ov_posts) = 2 =>
        ov_posts[2].time - ov_posts[1].time >= MIN_INTERVAL

\* C19: of two events a notifier delivers, the one emitted first is the one
\* whose delivering POST leaves first.
C19_EmissionOrderKept ==
    \A i, j \in DOMAIN ov_delivered:
        ov_delivered[i].id < ov_delivered[j].id
            => ov_delivered[i].post_no < ov_delivered[j].post_no

\* C20: with emit calls suspended in their fan-out, the history never holds
\* more than its capacity, holds each event at most once and in the order in
\* which the emit calls started, and holds every event that the newer ones
\* have not yet evicted.
C20_HistoryUnderOverlap ==
    /\ Len(event_log) <= max_log_size
    /\ \A i, j \in DOMAIN event_log:
           i < j => event_log[i].id < event_log[j].id
    /\ \A i \in DOMAIN event_log: event_log[i].id \in 1..emit_count
    /\ \A id \in 1..emit_count:
           id > emit_count - max_log_size
               => \E i \in DOMAIN event_log: event_log[i].id = id

\* Two calls are suspended at once, one of them the first, whose event the
\* later emits have evicted.
C20_Witness ==
    /\ Cardinality(DOMAIN ov_calls) >= 2
    /\ 1 \in DOMAIN ov_calls
    /\ emit_count > max_log_size
    /\ \A i \in DOMAIN event_log: event_log[i].id # 1

\* ------------------------------------------------------------------------
\* Properties of setup_notifications
\* ------------------------------------------------------------------------
Names(ns) == {ns[i].name : i \in 1..Len(ns)}

\* C21: a configuration error is fatal for the affected sink only. Once
\* setup_notifications has been called, whatever the payload-shape name and
\* whichever credentials are missing, the call has returned the bus, the
\* file sink is registered, the chat sink is registered when its token and
\* chat id are given, and the bridge and the hooks are installed when
\* install_hooks is set.
C21_BadSinkDoesNotAbortSetup ==
    su_state # "not_called" =>
        /\ su_state = "returned"
        /\ "file" \in Names(notifiers)
        /\ (su_args.telegram_token /\ su_args.telegram_chat_id
                => "telegram" \in Names(notifiers))
        /\ (su_args.install_hooks => bridge_installed /\ hooks_installed)

\* ------------------------------------------------------------------------
\* Properties of the event loop of the DockerMonitor
\* ------------------------------------------------------------------------
SubscriptionLost == el_stream \in StreamErrors \cup {"ended"}

\* C22: resubscription. While the monitor is running, whenever the event
\* stream has raised an error or has ended, a new subscription is
\* eventually opened (or the monitor is stopped): the monitor never stays
\* for ever without a live subscription.
C22_Resubscribes ==
    [](el_running /\ SubscriptionLost => <>(el_stream = "live" \/ ~el_running))

\* C23: the monitor warns once about a missing container. In one run of the
\* monitor and one absence of the watched container, the 'container not
\* found' warning is sent at most once, however often the monitor subscribes
\* again after stream errors.
C23_WarnsOnce == el_warnings <= 1

\* ------------------------------------------------------------------------
\* Properties of the exception hooks
\* ------------------------------------------------------------------------
Pending(fault) == \E i \in 1..Len(ch_tasks): ch_tasks[i].fault = fault

EmittedAs(fault) == {ch_emitted[i] : i \in {j \in 1..Len(ch_emitted):
                                              ch_emitted[j].fault = fault}}

\* C24: uncaught faults become crash events. Every fault other than an
\* interrupt that reached the top-level hook or the handler of the loop has
\* one CRITICAL event of category 'crash' on its way to the bus or taken by
\* it: its emit is scheduled, or it was emitted once and is the event of
\* that emit.
C24_FaultsBecomeCrashEvents ==
    \A f \in 1..Len(ch_seen):
        ~IsInterrupt(ch_seen[f].exc_type) =>
            /\ Pending(f) \/ EmittedAs(f) # {}
            /\ \A e \in EmittedAs(f):
                   e.severity = CRITICAL /\ e.category = "crash"
            /\ Cardinality({j \in 1..Len(ch_emitted):
                               ch_emitted[j].fault = f}) <= 1

WasInterrupt(f) == IsSubclass(ch_seen[f].exc_type, "KeyboardInterrupt")

\* C25: interrupts are excluded from fault capture. For every
\* KeyboardInterrupt that reached the top-level hook, no event was built,
\* no emit was scheduled or made, nothing was printed in its place, and the
\* fault was passed on to the original hook.
C25_InterruptsPassedOn ==
    \A f \in 1..Len(ch_seen):
        ch_seen[f].hook = "sys.excepthook" /\ WasInterrupt(f) =>
            /\ ~ch_seen[f].built
            /\ ~ch_seen[f].scheduled
            /\ ~ch_seen[f].printed
            /\ ch_seen[f].passed_on
            /\ ~Pending(f)
            /\ EmittedAs(f) = {}

\* An interrupt went through the hook while a loop was running, after a
\* fault that became a crash event and was emitted.
C25_Witness ==
    /\ Len(ch_seen) = 2
    /\ ~WasInterrupt(1)
    /\ ch_seen[2].hook = "sys.excepthook"
    /\ WasInterrupt(2)
    /\ ch_seen[2].passed_on
    /\ EmittedAs(1) # {}

\* ------------------------------------------------------------------------
\* LoggingBridge: forwarding
\* ------------------------------------------------------------------------
FromOutside == {i \in DOMAIN lb_seen: ~UnderNamespace(lb_seen[i].name)}

\* C26: every record at or above the floor of the bridge from a logger
\* outside the namespace of the notification package becomes an event for
\* the bus, whether or not an event loop is running when it is logged: the
\* handler hands it over without waiting for the delivery, so each such
\* record has its emit either scheduled or made.
C26_RecordsReachTheBus ==
    /\ \A i \in FromOutside: lb_seen[i].forwarded
    /\ Cardinality(FromOutside) = Len(lb_tasks) + emit_count

\* ------------------------------------------------------------------------
\* emit with no accepting notifier
\* ------------------------------------------------------------------------
\* No registered notifier is enabled with a threshold at or below the event
\* of the emit that has returned.
NoneAccepts ==
    \A i \in 1..Len(notifiers):
        ~notifiers[i].enabled \/ notifiers[i].min_severity > ret.event.severity

\* C27: when no registered notifier accepts the event (an empty bus
\* included), emit returns an empty map, invokes no notifier, and the event is
\* still appended to the history.
C27_EmitWithoutTakers ==
    Returned /\ NoneAccepts =>
        /\ ret.results = EmptyMap
        /\ ret.tasks = <<>>
        /\ \A i \in 1..Len(notifiers): Invocations(i) = 0
        /\ event_log # <<>>
        /\ event_log[Len(event_log)] = ret.event

\* An emit on a bus that holds a disabled notifier and an enabled one whose
\* threshold is above the event.
C27_Witness ==
    /\ Returned
    /\ NoneAccepts
    /\ \E i, j \in 1..Len(notifiers):
           /\ ~notifiers[i].enabled
           /\ notifiers[j].enabled
           /\ notifiers[j].min_severity > ret.event.severity
    /\ ret.results = EmptyMap

\* ------------------------------------------------------------------------
\* HealthChecker: the alert flag
\* ------------------------------------------------------------------------
\* C28: in every state between two iterations of the loop, alerted is true
\* only while is_healthy is false.
C28_AlertedOnlyWhileUnhealthy == alerted => ~is_healthy

\* A second downtime: the checker alerted, recovered, and has alerted again.
C28_Witness ==
    /\ alerted
    /\ ~is_healthy
    /\ \E k \in 1..Len(hc_notified): hc_notified[k] = "info"

\* ------------------------------------------------------------------------
\* HostMonitor: independence of the metrics
\* ------------------------------------------------------------------------
\* C29: on every sample, whether a metric alerts, recovers or stays silent,
\* and its new flag, are what its own sampled value and its own previous
\* flag give; a failure while notifying for one metric neither changes the
\* flag of another metric nor keeps it from being evaluated in that sample.
C29_MetricsIndependent ==
    hm_samples > 0 =>
        \A m \in Metrics:
            LET own == CheckMetric(m, metrics[m], hm_prev_active[m])
            IN  /\ alert_active[m] = own.active
                /\ hm_notified[m] = own.notified

\* ------------------------------------------------------------------------
\* DockerMonitor: capacity of the restart window
\* ------------------------------------------------------------------------
\* C30: after any number of start events the window of the restart-loop
\* tracker holds at most the last K restart instants, K being the loop
\* threshold RESTART_LOOP_COUNT, the oldest being dropped on overflow.
C30_WindowHoldsLastK ==
    /\ Len(restart_times) <= RESTART_LOOP_COUNT
    /\ \A i \in 1..Len(restart_times):
           restart_times[i] =
               dm_starts[Len(dm_starts) - Len(restart_times) + i].time

\* ------------------------------------------------------------------------
\* Properties of the session of a sink
\* ------------------------------------------------------------------------
OpenSessions == {i \in 1..Len(ss_sessions): ss_sessions[i] = "open"}

Called(call) == \E i \in 1..Len(ss_calls): ss_calls[i] = call

\* C31: a Telegram or webhook sink has no session before its first send, has
\* at most one open session at any time, and once close has been called it
\* owns no open session, whatever send and close calls follow.
C31_NoOpenSessionAfterShutdown ==
    /\ ~Called("send") => ss_sessions = <<>>
    /\ Cardinality(OpenSessions) <= 1
    /\ Called("close") => OpenSessions = {}

\* ------------------------------------------------------------------------
\* Properties of the loop task of a monitor
\* ------------------------------------------------------------------------
Failed(entry) == entry.obs # "ok"

WriteFailed(sent) == sent.file \in {"swallowed", "raises"}

\* C33: when the write to the rotating log file fails, send returns false
\* and a print to the console is still attempted.
C33_FailedWriteReturnsFalse ==
    \A i \in 1..Len(fn_sends):
        WriteFailed(fn_sends[i])
            => /\ fn_sends[i].result = "false"
               /\ fn_sends[i].console # "none"

\* What the last die sent, by what the daemon reported for it.
DieAlertAsReported ==
    dm_last.action = "die" =>
        IF dm_last.die.oom_killed
        THEN /\ dm_last.notified = "critical"
             /\ dm_last.die.reason = "OOM Killed"
             /\ oom_count >= 1
        ELSE /\ dm_last.notified =
                    (IF dm_last.die.exit_code = "0" THEN "warning"
                     ELSE "critical")
             /\ dm_last.die.reason = ""

\* The step of a die that differs from the event before it: the OOM
\* counter goes up by one when the OOM flag is reported, and is left alone
\* otherwise.
DieCountsOom ==
    dm_last'.action = "die" /\ dm_last' # dm_last
        => oom_count' = oom_count + (IF dm_last'.die.oom_killed THEN 1 ELSE 0)

\* C34: a die of the watched container sends one alert: CRITICAL with the
\* reason "OOM Killed" when the state of the container reports the OOM flag,
\* and the OOM counter is incremented; otherwise CRITICAL for an exit code
\* other than "0" and WARNING for "0".
C34_DieClassified == [](DieAlertAsReported) /\ [][DieCountsOom]_vars

\* A clean exit after an OOM kill: both kinds of die have been processed.
C34_Witness ==
    /\ dm_last.action = "die"
    /\ ~dm_last.die.oom_killed
    /\ dm_last.die.exit_code = "0"
    /\ dm_last.notified = "warning"
    /\ oom_count = 1

\* The tasks of the monitor that can still run an iteration: suspended, and
\* not cancelled by stop.
LiveTasks ==
    {t \in 1..Len(mt_tasks): Suspended(mt_tasks[t]) /\ ~mt_tasks[t].stopped}

Starts == {i \in 1..Len(mt_calls): mt_calls[i] = "start"}

\* C35: a start while the monitor runs creates no second loop, so at most
\* one loop task can run iterations, and it is the one self._task refers
\* to; stop leaves running false and cancels that task, and a task that stop
\* has cancelled runs no further iteration: it neither observes nor calls
\* the callback.
C35_OneLoopStoppedForGood ==
    /\ Cardinality(LiveTasks) <= 1
    /\ LiveTasks \subseteq {mt_task}
    /\ Len(mt_tasks) <= Cardinality(Starts)
    /\ mt_running => LiveTasks # {} \/ mt_tasks[mt_task].pc = "failed"
    /\ (mt_calls # <<>> /\ mt_calls[Len(mt_calls)] = "stop") => ~mt_running
    /\ \A i \in 1..Len(mt_log): ~mt_log[i].stopped

\* A second start while running, then stop during the GET of the
\* HealthChecker: one task was made, it had run an iteration, and the
\* cancellation ended it.
C35_Witness ==
    /\ mt_kind = "health"
    /\ mt_calls = <<"start", "start", "stop">>
    /\ Len(mt_tasks) = 1
    /\ mt_tasks[1].pc = "cancelled"
    /\ Len(mt_log) = 1

\* The starts of the whole history that lie in the window at time now.
HistoryRestarts(now) ==
    Cardinality({i \in 1..Len(dm_starts): InWindow(now, dm_starts[i].time)})

\* C36: the restart-loop verdict taken on the bounded deque is the verdict
\* an unbounded history of the starts gives: at every start, the deque
\* holds at least RESTART_LOOP_COUNT instants less than RESTART_LOOP_WINDOW
\* old iff the whole history does, and the CRITICAL alert follows it.
C36_WindowDecidesAsHistory ==
    dm_starts # <<>> =>
        LET bounded == RecentRestarts(restart_times, dm_clock) >= RESTART_LOOP_COUNT
            unbounded == HistoryRestarts(dm_clock) >= RESTART_LOOP_COUNT
        IN  /\ bounded <=> unbounded
            /\ dm_starts[Len(dm_starts)].notified = "critical" <=> unbounded

\* More starts than the deque holds, the dropped one still inside the window.
C36_Witness ==
    /\ Len(dm_starts) > Len(restart_times)
    /\ InWindow(dm_clock, dm_starts[1].time)
    /\ HistoryRestarts(dm_clock) > Len(restart_times)
    /\ dm_starts[Len(dm_starts)].notified = "critical"

\* C37: once an UNHEALTHY alert has been sent, the next "healthy" event
\* sends the recovery notice, whatever health states were reported in
\* between; alerts and recoveries alternate: an alert is sent only when none
\* is owed a recovery, a recovery only when one is.
C37_RecoveryNeverLost ==
    /\ (dm_last.action = "health_status: healthy" /\ dm_last.owed)
           => dm_last.notified = "info"
    /\ (IsHealthStatus(dm_last.action) /\ dm_last.notified = "error")
           => ~dm_last.owed
    /\ (IsHealthStatus(dm_last.action) /\ dm_last.notified = "info")
           => dm_last.owed

\* C38: a callback that raises does not stop the polling of the
\* HealthChecker or of the HostMonitor: the iteration in which it raised
\* leaves the task in the sleep the next iteration follows.
C38_CallbackFailureKeepsPolling ==
    \A i \in 1..Len(mt_log):
        (mt_kind \in {"health", "host"} /\ mt_log[i].cb = "raises")
            => mt_log[i].after = "sleeping"

\* ------------------------------------------------------------------------
\* Further properties of the bus
\* ------------------------------------------------------------------------
\* C39: the map emit returns has one entry per notifier it invoked: its keys
\* are the names of the accepting notifiers and it has as many entries as
\* send was invoked, after any sequence of register calls.
C39_OneEntryPerInvocation ==
    Returned =>
        /\ DOMAIN ret.results = {ret.tasks[k].name: k \in DOMAIN ret.tasks}
        /\ Cardinality(DOMAIN ret.results) = Len(ret.tasks)

\* ------------------------------------------------------------------------
\* Further properties of the exception hooks
\* ------------------------------------------------------------------------
\* C40: the handler of faults in background tasks does not feed itself: a
\* fault raised inside a bus.emit that a hook scheduled causes no further
\* crash event to be scheduled, so no fault the hooks have seen has its
\* origin in the emit of another.
C40_HandlerDoesNotFeedItself ==
    \A f \in 1..Len(ch_seen): ch_seen[f].origin = 0

====
